---- MODULE Spec2Model ----
(***************************************************************************)
(* The cycle state machine of TranscriptionPipelineManager.run() and the   *)
(* statistics it publishes through the REST interface.                     *)
(*                                                                         *)
(* One loop iteration of run() is the action Tick: it reads the clock,     *)
(* applies the time-based reset and then falls through the chain of        *)
(* `if current_state == ...` dispatches exactly as the source does.  The    *)
(* results of the external collaborators (RunpodSingletonManager, the      *)
(* pod's HTTP endpoints) are the inputs of a tick.                         *)
(***************************************************************************)
EXTENDS Integers, Sequences, FiniteSets, TLC

\* ------------------------------------------------------------ constants.py
CYCLE_DURATION == 3600
STATUS_CHECK_TIMEOUT == 300
COUNT_UPDATE_INTERVAL == 60
MAIN_LOOP_SLEEP == 1
POD_STATUS_CHECK_INTERVAL == 5

STATE_STARTING_CYCLE == "STARTING_CYCLE"
STATE_ATTEMPTING_POD_START == "ATTEMPTING_POD_START"
STATE_WAITING_FOR_IDLE == "WAITING_FOR_IDLE"
STATE_ATTEMPTING_PIPELINE_RUN == "ATTEMPTING_PIPELINE_RUN"
STATE_UPDATING_COUNTS == "UPDATING_COUNTS"
STATE_WAITING_AFTER_FAILURE == "WAITING_AFTER_FAILURE"

VALID_STATES ==
    { STATE_STARTING_CYCLE, STATE_ATTEMPTING_POD_START, STATE_WAITING_FOR_IDLE,
      STATE_ATTEMPTING_PIPELINE_RUN, STATE_UPDATING_COUNTS,
      STATE_WAITING_AFTER_FAILURE }

\* POD_URL_TEMPLATE % pod_id
POD_URL_TEMPLATE(id) == "https://" \o id \o "-8080.proxy.runpod.net"

\* ------------------------------------------------------------------ bounds
\* Loop iterations explored by Spec and FaultSpec.
MaxTicks == 5
\* Methods called directly on the manager in UnitSpec.
MaxCalls == 2
\* Cycle durations covered by the time horizon of LiveSpec.
MaxCycles == 3
\* The clock reading when the manager is constructed (seconds).
StartTime == 1000

\* Time a loop iteration spends blocked in its calls, before sleep(): nothing,
\* or just enough to bring the next reading of the clock to one of the
\* thresholds of the loop.
Busy ==
    { 0, POD_STATUS_CHECK_INTERVAL - MAIN_LOOP_SLEEP,
      COUNT_UPDATE_INTERVAL - MAIN_LOOP_SLEEP,
      STATUS_CHECK_TIMEOUT - MAIN_LOOP_SLEEP, CYCLE_DURATION - MAIN_LOOP_SLEEP }
\* The coarser iterations of LiveSpec.
LiveBusy ==
    { STATUS_CHECK_TIMEOUT - MAIN_LOOP_SLEEP, CYCLE_DURATION - MAIN_LOOP_SLEEP }
MaxTime == StartTime + MaxCycles * CYCLE_DURATION

\* ---------------------------------------------- results of the collaborators
\* runpod_start_manager.run(): a pod id, a falsy value, or an exception.
EnsureResults ==
    { [kind |-> "pod", id |-> "podA"], [kind |-> "pod", id |-> "podB"],
      [kind |-> "falsy", id |-> ""], [kind |-> "raise", id |-> ""] }
\* runpod_terminate_manager.run(): truthy, None, or an exception.
TerminateResults == { "ok", "falsy", "raise" }
\* GET {pod_url}/status: code 0 stands for a RequestException without response.
StatusResponses ==
    { [code |-> 200, json |-> "object", status |-> "idle"],
      [code |-> 200, json |-> "object", status |-> "loading"],
      [code |-> 200, json |-> "object", status |-> "none"],
      [code |-> 201, json |-> "object", status |-> "idle"],
      [code |-> 200, json |-> "array", status |-> "none"],
      [code |-> 200, json |-> "invalid", status |-> "none"],
      [code |-> 500, json |-> "object", status |-> "idle"],
      [code |-> 0, json |-> "invalid", status |-> "none"] }
\* POST {pod_url}/run: the keys of the JSON object answered.
\* success is the value under the key "success": true, false, a string, or
\* "absent" when the key is not there.
RunResponses ==
    { [code |-> 200, json |-> "object", keys |-> {"success", "message"}, success |-> "true"],
      [code |-> 200, json |-> "object", keys |-> {"success", "message"}, success |-> "false"],
      [code |-> 200, json |-> "object", keys |-> {"success", "message"}, success |-> "string"],
      [code |-> 200, json |-> "object", keys |-> {"success"}, success |-> "true"],
      [code |-> 200, json |-> "object", keys |-> {"message"}, success |-> "absent"],
      [code |-> 200, json |-> "object", keys |-> {"error"}, success |-> "absent"],
      [code |-> 200, json |-> "object", keys |-> {"message", "error"}, success |-> "absent"],
      [code |-> 200, json |-> "invalid", keys |-> {}, success |-> "absent"],
      [code |-> 500, json |-> "object", keys |-> {"success", "message"}, success |-> "true"],
      [code |-> 0, json |-> "invalid", keys |-> {}, success |-> "absent"] }
\* What a second attempt of the POST would be answered, were one made.
RetryAnswers ==
    { r \in RunResponses :
        \/ r.code = 0
        \/ r.code = 200 /\ r.keys = {"success", "message"} /\ r.success = "true" }
\* runpod_start_manager.count_pods(): a dict, something else, or an exception.
CountResults ==
    { [kind |-> "dict", keys |-> {"total", "running"}, total |-> 1, running |-> 1],
      [kind |-> "dict", keys |-> {"total", "running"}, total |-> 2, running |-> 0],
      [kind |-> "dict", keys |-> {"total"}, total |-> 2, running |-> 0],
      [kind |-> "dict", keys |-> {"running"}, total |-> 0, running |-> 2],
      [kind |-> "list", keys |-> {}, total |-> 0, running |-> 0],
      [kind |-> "none", keys |-> {}, total |-> 0, running |-> 0],
      [kind |-> "raise", keys |-> {}, total |-> 0, running |-> 0] }
NoCounts == [total |-> 0, running |-> 0]

\* What a patched _handle_starting_cycle returns as next state
\* (test_run_raises_runtimeerror_on_invalid_state).
INVALID_STATE == "INVALID_STATE_XYZ"

\* No method has been called directly.
NoProbe == [ n |-> 0, op |-> "", input |-> << >>, result |-> "" ]

\* Stats.__init__: the fields of a new Stats object.
Stats == [ pods_count |-> 0, pipeline_last_run_time |-> 0 ]
\* The methods the class Stats defines.
StatsMethods ==
    { "get_pods_count", "set_pods_count",
      "get_pipeline_last_run_time", "set_pipeline_last_run_time" }
\* The methods its callers and tests call, and the values they pass.
StatsSetters ==
    { "set_pods_total", "set_pods_running", "set_pipeline_last_run_time",
      "set_pods_count" }
StatsGetters ==
    { "get_pods_total", "get_pods_running", "get_pipeline_last_run_time",
      "get_all_stats", "get_pods_count" }
StatValues == { 0, 3, 5 }
\* No setter has been called.
NothingSet == [ pods_total |-> 0, pods_running |-> 0, pipeline_last_run_time |-> 0 ]

\* --------------------------------------- the threads that share a Stats object
\* The thread of the manager's loop and two request threads of the Flask server.
Threads == { "loop", "request-1", "request-2" }
\* A thread that is in no call of the Stats object.
Idle == [ pc |-> "idle", op |-> "", arg |-> 0, ret |-> 0 ]
\* The field a method of Stats reads or writes.
field_of(name) ==
    IF name \in { "get_pods_count", "set_pods_count" } THEN "pods_count"
    ELSE "pipeline_last_run_time"
\* No setter has returned yet; n counts the calls begun.
NothingWritten == [ n |-> 0, pods_count |-> {}, pipeline_last_run_time |-> {} ]

\* ------------------------------------------------------- the CallbackServer
TEST_API_KEY == "test-secret-key"
\* No key: None or the empty string, which `api_key or ...` and `if
\* self.api_key` treat alike.
NoKey == ""
ApiKeys == { NoKey, TEST_API_KEY }
\* CallbackServer.__init__(host, port, api_key), TRANSCRIPTION_API_KEY being
\* env_key in the environment: worker is the thread object that start()
\* created, whether self.thread still refers to it or not.
CallbackServer(api_key, env_key) ==
    [ api_key |-> IF api_key # NoKey THEN api_key ELSE env_key,
      thread |-> "None", stop_event |-> FALSE, worker |-> "none" ]
\* The api_key parameter of a request's query string: absent, empty, or a value.
ProvidedKeys ==
    { [ present |-> FALSE, value |-> "" ], [ present |-> TRUE, value |-> "" ],
      [ present |-> TRUE, value |-> "wrong-key" ],
      [ present |-> TRUE, value |-> TEST_API_KEY ] }
Methods == { "GET", "POST" }
Paths ==
    { "/stats", "/stats/pods-count", "/stats/pipeline-last-run-time", "/logs" }
ContentTypes == { "application/json", "text/plain" }
\* Request bodies: a JSON object, JSON that is not an object, text that is not
\* JSON, bytes that are not UTF-8.
Bodies == { "object", "array", "malformed", "not-utf8" }
\* The requests: the body and its type vary where a handler reads them.
Requests ==
    { r \in [ method : Methods, path : Paths, api_key : ProvidedKeys,
              content_type : ContentTypes, body : Bodies ] :
        r.method # "POST" \/ r.path # "/logs" =>
            r.content_type = "text/plain" /\ r.body = "malformed" }
\* What a test patches to raise while a request is handled: nothing, the getters
\* of the Stats object, or flask.Request.get_data.
Faults == { "none", "stats", "get_data" }
\* The faults that can show while a request is handled: the GET handlers read
\* the Stats object, the POST handler reads the body.
FaultsOf(req) ==
    { fault \in Faults : \/ fault = "none"
                         \/ fault = "stats" /\ req.method = "GET"
                         \/ fault = "get_data" /\ req.method = "POST" }
\* The update methods the manager and the tests call on the server.
ServerUpdaters ==
    { "update_pods_count", "update_pods_total", "update_pods_running",
      "update_pipeline_last_run_time" }
\* Response bodies.
Json(obj) == [ json |-> obj ]
Text(s) == [ text |-> s ]
IsJson(body) == "json" \in DOMAIN body
IsText(body) == "text" \in DOMAIN body

\* One entry of the log of collaborator calls made by a loop iteration.
Call(op, arg, res) == [op |-> op, arg |-> arg, res |-> res]
Bool(b) == IF b THEN "true" ELSE "false"

VARIABLES
    \* locals of run()
    current_state, cycle_start_time, pod_id, pod_url,
    last_count_update_time, last_idle_check_time, now,
    \* the manager and the Stats object of its REST interface
    shutdown_event, pods_total, pods_running, pipeline_last_run_time,
    \* where run() stands, and the counts _update_pod_counts is publishing
    pc, counts,
    \* how run() ended
    critical_logged, run_raised, rest_shutdown_calls, exit_calls,
    \* whether _handle_starting_cycle is patched to return INVALID_STATE
    patched,
    \* history: what the last loop iteration did, and the current cycle
    tick_log, ticks, cycle, cycle_healthy, idle_wait_start, last_check,
    \* history: how run() left its try block ("" while it has not)
    left_by,
    \* history: the last method called directly on the manager, as a test does:
    \* how many calls so far, the method, what its collaborator answered and
    \* what it returned
    probe,
    \* the Stats object of rest_interface.py, and history: the value last
    \* passed to a setter for each field the callers of Stats know
    stats, last_set,
    \* history: the collaborator calls of the cycle under way
    cycle_log,
    \* the threads that call the Stats object concurrently: who holds
    \* Stats._lock ("" if nobody), where each thread stands in its call, and
    \* history: the values that calls which have returned wrote
    lock, threads, store_log,
    \* the CallbackServer: api_key, thread, stop_event, and its worker thread
    server

vars ==
    << current_state, cycle_start_time, pod_id, pod_url, last_count_update_time,
       last_idle_check_time, now, shutdown_event, pods_total, pods_running,
       pipeline_last_run_time, pc, counts, critical_logged, run_raised,
       rest_shutdown_calls, exit_calls, patched, tick_log, ticks, cycle, cycle_healthy,
       idle_wait_start, last_check, left_by, probe, stats, last_set,
                    cycle_log, lock, threads, store_log, server >>

\* ------------------------------------------------------- helpers of manager.py
\* elapsed_cycle_time = now - cycle_start_time if cycle_start_time > 0 else 0
elapsed_cycle_time(now_, cycle_start_time_) ==
    IF cycle_start_time_ > 0 THEN now_ - cycle_start_time_ ELSE 0

\* Mutant: the reset waits until the duration is exceeded, not reached.
cycle_reset_due_strict(current_state_, elapsed) ==
    current_state_ # STATE_STARTING_CYCLE /\ elapsed > CYCLE_DURATION

\* Mutant: the comparison of the state is inverted, so no running cycle resets.
cycle_reset_due_inverted(current_state_, elapsed) ==
    current_state_ = STATE_STARTING_CYCLE /\ elapsed >= CYCLE_DURATION

\* The time-based cycle reset of run():
\* current_state != STATE_STARTING_CYCLE and elapsed_cycle_time >= CYCLE_DURATION
cycle_reset_due(current_state_, elapsed) ==
    current_state_ # STATE_STARTING_CYCLE /\ elapsed >= CYCLE_DURATION

\* _terminate_pods: runs the terminate manager; a falsy result and an exception
\* are logged, nothing is returned or raised.
terminate_pods(term) == << Call("terminate_all", "", term) >>

\* Mutant: any JSON object answered without an HTTP error counts as idle.
check_pod_idle_status_any_status(resp) ==
    IF resp.code = 0 THEN FALSE
    ELSE IF resp.code >= 400 THEN FALSE
    ELSE IF resp.json = "invalid" THEN FALSE
    ELSE resp.json = "object"

\* _check_pod_idle_status: requests.get, raise_for_status, response.json()
check_pod_idle_status(resp) ==
    IF resp.code = 0 THEN FALSE
    ELSE IF resp.code >= 400 THEN FALSE
    ELSE IF resp.json = "invalid" THEN FALSE
    ELSE resp.json = "object" /\ resp.status = "idle"

\* _process_trigger_pipeline_run_response: the verdict on the decoded body
process_trigger_pipeline_run_response(resp) ==
    IF resp.json = "invalid" THEN FALSE
    ELSE IF "message" \in resp.keys THEN TRUE
    ELSE IF "error" \in resp.keys THEN FALSE
    ELSE FALSE

\* requests.post(run_url, ...) in _trigger_pipeline_run: one attempt, whose
\* answer is the first of those the pod and the network would give.
post(answers) == answers[1]

\* _trigger_pipeline_run: requests.post, raise_for_status, then the verdict
trigger_pipeline_run(resp) ==
    IF resp.code = 0 THEN FALSE
    ELSE IF resp.code >= 400 THEN FALSE
    ELSE process_trigger_pipeline_run_response(resp)

\* Mutant: the time of the manager's construction is published.
trigger_time_of_construction(now_) == StartTime

\* Mutant: the time published is counted from the manager's start.
trigger_time_since_start(now_) == now_ - StartTime

\* int(time.time()) as read by _process_trigger_pipeline_run_response: the
\* iteration's calls up to the trigger take no time of the model's clock.
trigger_time(now_) == now_

\* Mutant: a dict that has 'total' is enough.
update_pod_counts_total_only(cnt) ==
    cnt.kind = "dict" /\ "total" \in cnt.keys

\* _update_pod_counts: whether count_pods() gave a dict with both keys
update_pod_counts(cnt) ==
    cnt.kind = "dict" /\ "total" \in cnt.keys /\ "running" \in cnt.keys

\* --------------------------------------------------------- the state handlers
\* Mutant: the time of the last count update survives into the new cycle.
handle_starting_cycle_keeps_count_time(now_) ==
    [ next_state |-> STATE_ATTEMPTING_POD_START, cycle_start_time |-> now_,
      pod_id |-> "", pod_url |-> "",
      last_count_update_time |-> last_count_update_time,
      last_idle_check_time |-> 0 ]
\* _handle_starting_cycle
handle_starting_cycle(now_) ==
    [ next_state |-> STATE_ATTEMPTING_POD_START, cycle_start_time |-> now_,
      pod_id |-> "", pod_url |-> "",
      last_count_update_time |-> 0, last_idle_check_time |-> 0 ]

\* Mutant: an exception of the start manager skips the cleanup.
handle_attempting_pod_start_leaks_on_exception(es, term) ==
    IF es.kind = "pod"
    THEN [ next_state |-> STATE_WAITING_FOR_IDLE, pod_id |-> es.id,
           pod_url |-> POD_URL_TEMPLATE(es.id),
           calls |-> << Call("ensure_started", "", es.kind) >> ]
    ELSE [ next_state |-> STATE_WAITING_AFTER_FAILURE, pod_id |-> "",
           pod_url |-> "",
           calls |-> << Call("ensure_started", "", es.kind) >>
                       \o IF es.kind = "raise" THEN << >> ELSE terminate_pods(term) ]

\* Mutant: a cleanup that fails sends the machine back to try the start again.
handle_attempting_pod_start_retries_on_failed_cleanup(es, term) ==
    IF es.kind = "pod"
    THEN [ next_state |-> STATE_WAITING_FOR_IDLE, pod_id |-> es.id,
           pod_url |-> POD_URL_TEMPLATE(es.id),
           calls |-> << Call("ensure_started", "", es.kind) >> ]
    ELSE [ next_state |-> IF term = "ok" THEN STATE_WAITING_AFTER_FAILURE
                          ELSE STATE_ATTEMPTING_POD_START,
           pod_id |-> "", pod_url |-> "",
           calls |-> << Call("ensure_started", "", es.kind) >> \o terminate_pods(term) ]

\* Mutant: the pod id is kept but no URL is built from it.
handle_attempting_pod_start_without_url(es, term) ==
    IF es.kind = "pod"
    THEN [ next_state |-> STATE_WAITING_FOR_IDLE, pod_id |-> es.id,
           pod_url |-> "",
           calls |-> << Call("ensure_started", "", es.kind) >> ]
    ELSE [ next_state |-> STATE_WAITING_AFTER_FAILURE, pod_id |-> "",
           pod_url |-> "",
           calls |-> << Call("ensure_started", "", es.kind) >> \o terminate_pods(term) ]

\* _handle_attempting_pod_start: a falsy result and an exception of
\* runpod_start_manager.run() both end in _terminate_pods().
handle_attempting_pod_start(es, term) ==
    IF es.kind = "pod"
    THEN [ next_state |-> STATE_WAITING_FOR_IDLE, pod_id |-> es.id,
           pod_url |-> POD_URL_TEMPLATE(es.id),
           calls |-> << Call("ensure_started", "", es.kind) >> ]
    ELSE [ next_state |-> STATE_WAITING_AFTER_FAILURE, pod_id |-> "",
           pod_url |-> "",
           calls |-> << Call("ensure_started", "", es.kind) >> \o terminate_pods(term) ]

\* Mutant: the idle check is tried before the timeout is looked at.
handle_waiting_for_idle_checks_first(now_, elapsed, last_idle_check_time_, pod_id_, pod_url_, resp, term) ==
    IF now_ - last_idle_check_time_ >= POD_STATUS_CHECK_INTERVAL
    THEN [ next_state |-> IF check_pod_idle_status(resp)
                          THEN STATE_ATTEMPTING_PIPELINE_RUN
                          ELSE STATE_WAITING_FOR_IDLE,
           last_idle_check_time |-> now_,
           calls |-> << Call("check_idle", pod_url_, Bool(check_pod_idle_status(resp))) >>,
           timed_out |-> FALSE ]
    ELSE IF elapsed >= STATUS_CHECK_TIMEOUT
    THEN [ next_state |-> STATE_WAITING_AFTER_FAILURE,
           last_idle_check_time |-> last_idle_check_time_,
           calls |-> terminate_pods(term), timed_out |-> TRUE ]
    ELSE [ next_state |-> STATE_WAITING_FOR_IDLE,
           last_idle_check_time |-> last_idle_check_time_,
           calls |-> << >>, timed_out |-> FALSE ]

\* Mutant: the pod is asked on every iteration, whatever the interval.
handle_waiting_for_idle_every_tick(now_, elapsed, last_idle_check_time_, pod_id_, pod_url_, resp, term) ==
    IF elapsed >= STATUS_CHECK_TIMEOUT
    THEN [ next_state |-> STATE_WAITING_AFTER_FAILURE,
           last_idle_check_time |-> last_idle_check_time_,
           calls |-> terminate_pods(term), timed_out |-> TRUE ]
    ELSE [ next_state |-> IF check_pod_idle_status(resp)
                          THEN STATE_ATTEMPTING_PIPELINE_RUN
                          ELSE STATE_WAITING_FOR_IDLE,
           last_idle_check_time |-> now_,
           calls |-> << Call("check_idle", pod_url_, Bool(check_pod_idle_status(resp))) >>,
           timed_out |-> FALSE ]

\* Mutant: the run is attempted after any idle check, whatever the answer.
handle_waiting_for_idle_ignores_answer(now_, elapsed, last_idle_check_time_, pod_id_, pod_url_, resp, term) ==
    IF elapsed >= STATUS_CHECK_TIMEOUT
    THEN [ next_state |-> STATE_WAITING_AFTER_FAILURE,
           last_idle_check_time |-> last_idle_check_time_,
           calls |-> terminate_pods(term), timed_out |-> TRUE ]
    ELSE IF now_ - last_idle_check_time_ >= POD_STATUS_CHECK_INTERVAL
    THEN [ next_state |-> STATE_ATTEMPTING_PIPELINE_RUN,
           last_idle_check_time |-> now_,
           calls |-> << Call("check_idle", pod_url_, Bool(check_pod_idle_status(resp))) >>,
           timed_out |-> FALSE ]
    ELSE [ next_state |-> STATE_WAITING_FOR_IDLE,
           last_idle_check_time |-> last_idle_check_time_,
           calls |-> << >>, timed_out |-> FALSE ]

\* _handle_waiting_for_idle
handle_waiting_for_idle(now_, elapsed, last_idle_check_time_, pod_id_, pod_url_, resp, term) ==
    IF elapsed >= STATUS_CHECK_TIMEOUT
    THEN [ next_state |-> STATE_WAITING_AFTER_FAILURE,
           last_idle_check_time |-> last_idle_check_time_,
           calls |-> terminate_pods(term), timed_out |-> TRUE ]
    ELSE IF now_ - last_idle_check_time_ >= POD_STATUS_CHECK_INTERVAL
    THEN [ next_state |-> IF check_pod_idle_status(resp)
                          THEN STATE_ATTEMPTING_PIPELINE_RUN
                          ELSE STATE_WAITING_FOR_IDLE,
           last_idle_check_time |-> now_,
           calls |-> << Call("check_idle", pod_url_, Bool(check_pod_idle_status(resp))) >>,
           timed_out |-> FALSE ]
    ELSE [ next_state |-> STATE_WAITING_FOR_IDLE,
           last_idle_check_time |-> last_idle_check_time_,
           calls |-> << >>, timed_out |-> FALSE ]

\* Mutant: a failed trigger goes to the cooldown without terminating the pods.
handle_attempting_pipeline_run_no_cleanup(pod_id_, pod_url_, resp, term) ==
    IF trigger_pipeline_run(resp)
    THEN [ next_state |-> STATE_UPDATING_COUNTS, run_triggered |-> TRUE,
           calls |-> << Call("trigger_run", pod_url_, "true") >> ]
    ELSE [ next_state |-> STATE_WAITING_AFTER_FAILURE, run_triggered |-> FALSE,
           calls |-> << Call("trigger_run", pod_url_, "false") >> ]

\* Mutant: a failed trigger leaves the machine where it is, to try again.
handle_attempting_pipeline_run_tries_again(pod_id_, pod_url_, resp, term) ==
    IF trigger_pipeline_run(resp)
    THEN [ next_state |-> STATE_UPDATING_COUNTS, run_triggered |-> TRUE,
           calls |-> << Call("trigger_run", pod_url_, "true") >> ]
    ELSE [ next_state |-> STATE_ATTEMPTING_PIPELINE_RUN, run_triggered |-> FALSE,
           calls |-> << Call("trigger_run", pod_url_, "false") >> ]

\* Mutant: the time of a trigger is published whether it succeeded or not.
handle_attempting_pipeline_run_stamps_failure(pod_id_, pod_url_, resp, term) ==
    IF trigger_pipeline_run(resp)
    THEN [ next_state |-> STATE_UPDATING_COUNTS, run_triggered |-> TRUE,
           calls |-> << Call("trigger_run", pod_url_, "true") >> ]
    ELSE [ next_state |-> STATE_WAITING_AFTER_FAILURE, run_triggered |-> TRUE,
           calls |-> << Call("trigger_run", pod_url_, "false") >> \o terminate_pods(term) ]

\* _handle_attempting_pipeline_run
handle_attempting_pipeline_run(pod_id_, pod_url_, resp, term) ==
    IF trigger_pipeline_run(resp)
    THEN [ next_state |-> STATE_UPDATING_COUNTS, run_triggered |-> TRUE,
           calls |-> << Call("trigger_run", pod_url_, "true") >> ]
    ELSE [ next_state |-> STATE_WAITING_AFTER_FAILURE, run_triggered |-> FALSE,
           calls |-> << Call("trigger_run", pod_url_, "false") >> \o terminate_pods(term) ]

\* Mutant: a failed update is treated as the failures of the other phases are.
handle_updating_counts_fails_over(now_, last_count_update_time_, cnt) ==
    IF now_ - last_count_update_time_ >= COUNT_UPDATE_INTERVAL
    THEN [ next_state |-> IF update_pod_counts(cnt) THEN STATE_UPDATING_COUNTS
                          ELSE STATE_WAITING_AFTER_FAILURE,
           last_count_update_time |-> IF update_pod_counts(cnt) THEN now_
                                      ELSE last_count_update_time_,
           counts_updated |-> update_pod_counts(cnt),
           calls |-> << Call("count", "", IF update_pod_counts(cnt) THEN "valid"
                                          ELSE IF cnt.kind = "raise" THEN "raise"
                                          ELSE "invalid") >> ]
    ELSE [ next_state |-> STATE_UPDATING_COUNTS,
           last_count_update_time |-> last_count_update_time_,
           counts_updated |-> FALSE, calls |-> << >> ]

\* Mutant: the time of the attempt is kept whether the update succeeded or not.
handle_updating_counts_stamps_failure(now_, last_count_update_time_, cnt) ==
    IF now_ - last_count_update_time_ >= COUNT_UPDATE_INTERVAL
    THEN [ next_state |-> STATE_UPDATING_COUNTS,
           last_count_update_time |-> now_,
           counts_updated |-> update_pod_counts(cnt),
           calls |-> << Call("count", "", IF update_pod_counts(cnt) THEN "valid"
                                          ELSE IF cnt.kind = "raise" THEN "raise"
                                          ELSE "invalid") >> ]
    ELSE [ next_state |-> STATE_UPDATING_COUNTS,
           last_count_update_time |-> last_count_update_time_,
           counts_updated |-> FALSE, calls |-> << >> ]

\* _handle_updating_counts
handle_updating_counts(now_, last_count_update_time_, cnt) ==
    IF now_ - last_count_update_time_ >= COUNT_UPDATE_INTERVAL
    THEN [ next_state |-> STATE_UPDATING_COUNTS,
           last_count_update_time |-> IF update_pod_counts(cnt) THEN now_
                                      ELSE last_count_update_time_,
           counts_updated |-> update_pod_counts(cnt),
           calls |-> << Call("count", "", IF update_pod_counts(cnt) THEN "valid"
                                          ELSE IF cnt.kind = "raise" THEN "raise"
                                          ELSE "invalid") >> ]
    ELSE [ next_state |-> STATE_UPDATING_COUNTS,
           last_count_update_time |-> last_count_update_time_,
           counts_updated |-> FALSE, calls |-> << >> ]

\* Mutant: the cooldown gives up after the idle-wait timeout and starts over.
handle_waiting_after_failure_retries(elapsed) ==
    IF elapsed >= STATUS_CHECK_TIMEOUT THEN STATE_STARTING_CYCLE
    ELSE STATE_WAITING_AFTER_FAILURE

handle_waiting_after_failure(elapsed) == STATE_WAITING_AFTER_FAILURE

\* ---------------------------------------------------- one iteration of run()
\* The locals of run() as an iteration begins, after the time-based reset, with
\* the (empty) log of what the iteration does.
Frame(reset_) ==
    [ state |-> IF reset_ THEN STATE_STARTING_CYCLE ELSE current_state,
      cycle_start_time |-> cycle_start_time, pod_id |-> pod_id,
      pod_url |-> pod_url, last_count_update_time |-> last_count_update_time,
      last_idle_check_time |-> last_idle_check_time,
      reset |-> reset_, handled |-> << >>, calls |-> << >>,
      timed_out |-> FALSE, run_triggered |-> FALSE, counts_updated |-> FALSE,
      counts |-> NoCounts ]

\* if current_state == STATE_STARTING_CYCLE: ...  (a patched handler answers
\* INVALID_STATE as next state, the other values as the real one does)
dispatch_starting_cycle(f, now_) ==
    IF f.state = STATE_STARTING_CYCLE
    THEN { [ f EXCEPT !.state = IF inject THEN INVALID_STATE
                                ELSE handle_starting_cycle(now_).next_state,
                      !.cycle_start_time = handle_starting_cycle(now_).cycle_start_time,
                      !.pod_id = handle_starting_cycle(now_).pod_id,
                      !.pod_url = handle_starting_cycle(now_).pod_url,
                      !.last_count_update_time =
                          handle_starting_cycle(now_).last_count_update_time,
                      !.last_idle_check_time =
                          handle_starting_cycle(now_).last_idle_check_time,
                      !.handled = Append(@, STATE_STARTING_CYCLE) ]
           : inject \in IF patched THEN BOOLEAN ELSE {FALSE} }
    ELSE {f}

\* if current_state == STATE_ATTEMPTING_POD_START: ...
dispatch_attempting_pod_start(f) ==
    IF f.state = STATE_ATTEMPTING_POD_START
    THEN { [ f EXCEPT !.state = handle_attempting_pod_start(es, term).next_state,
                      !.pod_id = handle_attempting_pod_start(es, term).pod_id,
                      !.pod_url = handle_attempting_pod_start(es, term).pod_url,
                      !.calls = @ \o handle_attempting_pod_start(es, term).calls,
                      !.handled = Append(@, STATE_ATTEMPTING_POD_START) ]
           : es \in EnsureResults, term \in TerminateResults }
    ELSE {f}

\* if current_state == STATE_WAITING_FOR_IDLE: ...  (elapsed is the value
\* computed at the top of the iteration)
dispatch_waiting_for_idle(f, now_, elapsed) ==
    IF f.state = STATE_WAITING_FOR_IDLE
    THEN { LET r == handle_waiting_for_idle(now_, elapsed, f.last_idle_check_time,
                                            f.pod_id, f.pod_url, resp, term)
           IN  [ f EXCEPT !.state = r.next_state,
                          !.last_idle_check_time = r.last_idle_check_time,
                          !.calls = @ \o r.calls,
                          !.timed_out = r.timed_out,
                          !.handled = Append(@, STATE_WAITING_FOR_IDLE) ]
           : resp \in StatusResponses, term \in TerminateResults }
    ELSE {f}

\* if current_state == STATE_ATTEMPTING_PIPELINE_RUN: ...
dispatch_attempting_pipeline_run(f) ==
    IF f.state = STATE_ATTEMPTING_PIPELINE_RUN
    THEN { LET r == handle_attempting_pipeline_run(f.pod_id, f.pod_url, resp, term)
           IN  [ f EXCEPT !.state = r.next_state,
                          !.run_triggered = r.run_triggered,
                          !.calls = @ \o r.calls,
                          !.handled = Append(@, STATE_ATTEMPTING_PIPELINE_RUN) ]
           : resp \in RunResponses, term \in TerminateResults }
    ELSE {f}

\* if current_state == STATE_UPDATING_COUNTS: ...
dispatch_updating_counts(f, now_) ==
    IF f.state = STATE_UPDATING_COUNTS
    THEN { LET r == handle_updating_counts(now_, f.last_count_update_time, cnt)
           IN  [ f EXCEPT !.state = r.next_state,
                          !.last_count_update_time = r.last_count_update_time,
                          !.counts_updated = r.counts_updated,
                          !.counts = IF r.counts_updated
                                     THEN [total |-> cnt.total, running |-> cnt.running]
                                     ELSE NoCounts,
                          !.calls = @ \o r.calls,
                          !.handled = Append(@, STATE_UPDATING_COUNTS) ]
           : cnt \in CountResults }
    ELSE {f}

\* if current_state == STATE_WAITING_AFTER_FAILURE: ...
dispatch_waiting_after_failure(f, elapsed) ==
    IF f.state = STATE_WAITING_AFTER_FAILURE
    THEN { [ f EXCEPT !.state = handle_waiting_after_failure(elapsed),
                      !.handled = Append(@, STATE_WAITING_AFTER_FAILURE) ] }
    ELSE {f}

\* Mutant: the dispatch is an if/elif chain, one handler per iteration.
Iterations_one_handler(now_) ==
    LET elapsed == elapsed_cycle_time(now_, cycle_start_time)
        F0 == { Frame(cycle_reset_due(current_state, elapsed)) }
    IN  UNION { IF f.state = STATE_STARTING_CYCLE
                THEN dispatch_starting_cycle(f, now_)
                ELSE IF f.state = STATE_ATTEMPTING_POD_START
                THEN dispatch_attempting_pod_start(f)
                ELSE IF f.state = STATE_WAITING_FOR_IDLE
                THEN dispatch_waiting_for_idle(f, now_, elapsed)
                ELSE IF f.state = STATE_ATTEMPTING_PIPELINE_RUN
                THEN dispatch_attempting_pipeline_run(f)
                ELSE IF f.state = STATE_UPDATING_COUNTS
                THEN dispatch_updating_counts(f, now_)
                ELSE dispatch_waiting_after_failure(f, elapsed)
              : f \in F0 }

\* The body of the while loop of run() for the clock reading now_: every way
\* the iteration can go, one per combination of results of the calls it makes.
Iterations(now_) ==
    LET elapsed == elapsed_cycle_time(now_, cycle_start_time)
        F0 == { Frame(cycle_reset_due(current_state, elapsed)) }
        F1 == UNION { dispatch_starting_cycle(f, now_) : f \in F0 }
        F2 == UNION { dispatch_attempting_pod_start(f) : f \in F1 }
        F3 == UNION { dispatch_waiting_for_idle(f, now_, elapsed) : f \in F2 }
        F4 == UNION { dispatch_attempting_pipeline_run(f) : f \in F3 }
        F5 == UNION { dispatch_updating_counts(f, now_) : f \in F4 }
    IN  UNION { dispatch_waiting_after_failure(f, elapsed) : f \in F5 }

\* Mutant: the loop does not look at the event.
loop_condition_ignores_event(shutdown_event_) == TRUE

\* while not self.shutdown_event.is_set()
loop_condition(shutdown_event_) == ~shutdown_event_

\* Mutant: the consistency check of the computed state is missing.
state_is_valid_unchecked(state) == TRUE

\* if current_state not in VALID_STATES: raise RuntimeError(...)
state_is_valid(state) == state \in VALID_STATES

\* Mutant: the handler of Exception logs and raises again.
run_except_reraises(exc) ==
    [ shutdown_event |-> exc \in {"KeyboardInterrupt", "Exception"},
      critical_logged |-> exc = "Exception",
      run_raised |-> exc = "Exception" ]

\* How run() leaves its try block: the flags set by the except clauses.
\* exc is "none" (the loop condition failed), "KeyboardInterrupt", "Exception"
\* (any exception derived from Exception) or what neither clause catches.
run_except(exc) ==
    [ shutdown_event |-> exc \in {"KeyboardInterrupt", "Exception"},
      critical_logged |-> exc = "Exception",
      run_raised |-> exc \notin {"none", "KeyboardInterrupt", "Exception"} ]

\* _shutdown: rest_interface.shutdown() is called once.
shutdown(calls_so_far) == calls_so_far + 1

\* The collaborators that the finally clause of run() calls once the loop is
\* left, in order.
shutdown_sequence_terminates_pods ==
    terminate_pods("ok") \o << Call("rest_interface.shutdown", "", "") >>

\* finally: _shutdown()
shutdown_sequence == << Call("rest_interface.shutdown", "", "") >>

\* Whether a call of the log is a failure of the collaborator as the claims
\* about healthy cycles mean it.
Unhealthy(c) ==
    \/ c.op = "ensure_started" /\ c.res # "pod"
    \/ c.op = "check_idle" /\ c.res = "false"
    \/ c.op = "trigger_run" /\ c.res = "false"
Healthy(calls) == \A i \in 1..Len(calls) : ~Unhealthy(calls[i])
Made(calls, op) == { i \in 1..Len(calls) : calls[i].op = op }
Handled(f, state) == \E i \in 1..Len(f.handled) : f.handled[i] = state

\* No collaborator has been called in the cycle.
NoCalls ==
    [ ensure_started |-> 0, trigger_run |-> 0, pod |-> "", idle |-> FALSE,
      triggered |-> FALSE ]
\* The calls of the cycle under way once the iteration f is over: an iteration
\* that handles STARTING_CYCLE begins a cycle, and all its calls are that
\* cycle's.  pod is what ensure_started returned, idle whether a check_idle
\* returned true, triggered whether a trigger_run did.
cycle_calls(log, f) ==
    LET base == IF Handled(f, STATE_STARTING_CYCLE) THEN NoCalls ELSE log
        made(op, res) ==
            \E i \in 1..Len(f.calls) : f.calls[i].op = op /\ f.calls[i].res = res
    IN  [ ensure_started |->
            base.ensure_started + Cardinality(Made(f.calls, "ensure_started")),
          trigger_run |->
            base.trigger_run + Cardinality(Made(f.calls, "trigger_run")),
          pod |-> IF Made(f.calls, "ensure_started") # {} THEN f.pod_id
                  ELSE base.pod,
          idle |-> base.idle \/ made("check_idle", "true"),
          triggered |-> base.triggered \/ made("trigger_run", "true") ]

\* The manager, its Stats object and the threads at the start of run(), before
\* any call.
Constructed ==
    /\ current_state = STATE_STARTING_CYCLE
    /\ cycle_start_time = 0
    /\ pod_id = ""
    /\ pod_url = ""
    /\ last_count_update_time = 0
    /\ last_idle_check_time = 0
    /\ now = StartTime
    /\ shutdown_event = FALSE
    /\ pods_total = 0
    /\ pods_running = 0
    /\ pipeline_last_run_time = 0
    /\ pc = "loop"
    /\ counts = NoCounts
    /\ critical_logged = FALSE
    /\ run_raised = FALSE
    /\ rest_shutdown_calls = 0
    /\ exit_calls = << >>
    /\ patched = FALSE
    /\ tick_log = [ reset |-> FALSE, handled |-> << >>, calls |-> << >>,
                    timed_out |-> FALSE ]
    /\ ticks = 0
    /\ cycle = 0
    /\ cycle_healthy = TRUE
    /\ idle_wait_start = 0
    /\ last_check = 0
    /\ left_by = ""
    /\ probe = NoProbe
    /\ stats = Stats
    /\ last_set = NothingSet
    /\ cycle_log = NoCalls
    /\ lock = ""
    /\ threads = [ t \in Threads |-> Idle ]
    /\ store_log = NothingWritten

Init ==
    /\ Constructed
    /\ server = CallbackServer(NoKey, NoKey)

\* One iteration of the while loop, the clock having advanced by d since the
\* last reading.  update_pods_running, the last write of _update_pod_counts, is
\* left to PublishRunning: what the iteration does after it touches only the
\* locals of run(), so doing it first changes nothing another thread can see.
Iterate(d) ==
    /\ pc = "loop"
    /\ loop_condition(shutdown_event)
    /\ \E f \in Iterations(now + d) :
         /\ now' = now + d
         /\ current_state' = f.state
         /\ cycle_start_time' = f.cycle_start_time
         /\ pod_id' = f.pod_id
         /\ pod_url' = f.pod_url
         /\ last_count_update_time' = f.last_count_update_time
         /\ last_idle_check_time' = f.last_idle_check_time
         /\ pipeline_last_run_time' =
              IF f.run_triggered THEN trigger_time(now + d)
              ELSE pipeline_last_run_time
         /\ pods_total' = IF f.counts_updated THEN f.counts.total ELSE pods_total
         /\ counts' = f.counts
         /\ UNCHANGED << pods_running, patched, probe, stats, last_set, lock,
                         threads, store_log, server >>
         /\ cycle_log' = cycle_calls(cycle_log, f)
         /\ IF ~state_is_valid(f.state)
            THEN /\ shutdown_event' = run_except("Exception").shutdown_event
                 /\ critical_logged' = run_except("Exception").critical_logged
                 /\ run_raised' = run_except("Exception").run_raised
                 /\ rest_shutdown_calls' = shutdown(rest_shutdown_calls)
                 /\ exit_calls' = shutdown_sequence
                 /\ pc' = "stopped"
                 /\ left_by' = "Exception"
            ELSE /\ UNCHANGED << shutdown_event, critical_logged, run_raised,
                                 rest_shutdown_calls, exit_calls, left_by >>
                 /\ pc' = IF f.counts_updated THEN "update_pods_running" ELSE "loop"
         /\ tick_log' = [ reset |-> f.reset, handled |-> f.handled,
                          calls |-> f.calls, timed_out |-> f.timed_out ]
         /\ ticks' = ticks + 1
         /\ cycle' = IF Handled(f, STATE_STARTING_CYCLE) THEN cycle + 1 ELSE cycle
         /\ cycle_healthy' =
              IF Handled(f, STATE_STARTING_CYCLE) THEN Healthy(f.calls)
              ELSE cycle_healthy /\ Healthy(f.calls)
         /\ idle_wait_start' =
              IF Handled(f, STATE_WAITING_FOR_IDLE)
                 /\ Handled(f, STATE_ATTEMPTING_POD_START)
              THEN now + d
              ELSE IF Handled(f, STATE_STARTING_CYCLE) THEN 0 ELSE idle_wait_start
         /\ last_check' =
              IF Made(f.calls, "check_idle") # {} THEN now + d
              ELSE IF Handled(f, STATE_STARTING_CYCLE) THEN 0 ELSE last_check

\* self.rest_interface.update_pods_running(running)
PublishRunning ==
    /\ pc = "update_pods_running"
    /\ pods_running' = counts.running
    /\ pc' = "loop"
    /\ UNCHANGED << current_state, cycle_start_time, pod_id, pod_url,
                    last_count_update_time, last_idle_check_time, now,
                    shutdown_event, pods_total, pipeline_last_run_time, counts,
                    critical_logged, run_raised, rest_shutdown_calls, exit_calls, patched,
                    tick_log, ticks, cycle, cycle_healthy, idle_wait_start,
                    last_check, left_by, probe, stats, last_set,
                    cycle_log, lock, threads, store_log, server >>

\* _handle_shutdown_signal: SIGINT or SIGTERM arrives.
Signal ==
    /\ pc # "stopped"
    /\ ~shutdown_event
    /\ shutdown_event' = TRUE
    /\ UNCHANGED << current_state, cycle_start_time, pod_id, pod_url,
                    last_count_update_time, last_idle_check_time, now,
                    pods_total, pods_running, pipeline_last_run_time, pc, counts,
                    critical_logged, run_raised, rest_shutdown_calls, exit_calls, patched,
                    tick_log, ticks, cycle, cycle_healthy, idle_wait_start,
                    last_check, left_by, probe, stats, last_set,
                    cycle_log, lock, threads, store_log, server >>

\* The loop condition finds the event set: finally, _shutdown().
LoopExit ==
    /\ pc = "loop"
    /\ ~loop_condition(shutdown_event)
    /\ pc' = "stopped"
    /\ critical_logged' = (critical_logged \/ run_except("none").critical_logged)
    /\ run_raised' = run_except("none").run_raised
    /\ rest_shutdown_calls' = shutdown(rest_shutdown_calls)
    /\ exit_calls' = shutdown_sequence
    /\ left_by' = "none"
    /\ UNCHANGED << current_state, cycle_start_time, pod_id, pod_url,
                    last_count_update_time, last_idle_check_time, now,
                    shutdown_event, pods_total, pods_running,
                    pipeline_last_run_time, counts, patched, tick_log, ticks,
                    cycle, cycle_healthy, idle_wait_start, last_check, probe,
                    stats, last_set,
                    cycle_log, lock, threads, store_log, server >>

\* An iteration within the bound on iterations.
Tick == \E b \in Busy : ticks < MaxTicks /\ Iterate(b + MAIN_LOOP_SLEEP)

Next == Tick \/ PublishRunning \/ Signal \/ LoopExit

Spec == Init /\ [][Next]_vars

\* The manager under test_run_raises_runtimeerror_on_invalid_state's patch.
FaultInit ==
    /\ patched = TRUE
    /\ current_state = STATE_STARTING_CYCLE
    /\ cycle_start_time = 0
    /\ pod_id = ""
    /\ pod_url = ""
    /\ last_count_update_time = 0
    /\ last_idle_check_time = 0
    /\ now = StartTime
    /\ shutdown_event = FALSE
    /\ pods_total = 0
    /\ pods_running = 0
    /\ pipeline_last_run_time = 0
    /\ pc = "loop"
    /\ counts = NoCounts
    /\ critical_logged = FALSE
    /\ run_raised = FALSE
    /\ rest_shutdown_calls = 0
    /\ exit_calls = << >>
    /\ tick_log = [ reset |-> FALSE, handled |-> << >>, calls |-> << >>,
                    timed_out |-> FALSE ]
    /\ ticks = 0
    /\ cycle = 0
    /\ cycle_healthy = TRUE
    /\ idle_wait_start = 0
    /\ last_check = 0
    /\ left_by = ""
    /\ probe = NoProbe
    /\ stats = Stats
    /\ last_set = NothingSet
    /\ cycle_log = NoCalls
    /\ lock = ""
    /\ threads = [ t \in Threads |-> Idle ]
    /\ store_log = NothingWritten
    /\ server = CallbackServer(NoKey, NoKey)

\* What a patched sleep() or handler raises into the loop of run().
Raised == { "KeyboardInterrupt", "Exception" }

\* An exception reaches the try block of run() from the iteration under way:
\* the except clause that matches it runs, then finally, _shutdown().
Raise ==
    /\ patched
    /\ pc = "loop"
    /\ loop_condition(shutdown_event)
    /\ \E exc \in Raised :
         /\ shutdown_event' = run_except(exc).shutdown_event
         /\ critical_logged' = run_except(exc).critical_logged
         /\ run_raised' = run_except(exc).run_raised
         /\ left_by' = exc
    /\ rest_shutdown_calls' = shutdown(rest_shutdown_calls)
    /\ exit_calls' = shutdown_sequence
    /\ pc' = "stopped"
    /\ UNCHANGED << current_state, cycle_start_time, pod_id, pod_url,
                    last_count_update_time, last_idle_check_time, now,
                    pods_total, pods_running, pipeline_last_run_time, counts,
                    patched, tick_log, ticks, cycle, cycle_healthy,
                    idle_wait_start, last_check, probe, stats, last_set,
                    cycle_log, lock, threads, store_log, server >>

FaultNext == Next \/ Raise

FaultSpec == FaultInit /\ [][FaultNext]_vars

\* The runs in which no signal arrives, for the liveness claims: iterations
\* that keep the clock within the horizon; the loop thread keeps iterating, and
\* publishing, as long as it can.
LiveTick == \E b \in LiveBusy :
    now + b + MAIN_LOOP_SLEEP <= MaxTime /\ Iterate(b + MAIN_LOOP_SLEEP)

LiveNext == LiveTick \/ PublishRunning

LiveSpec ==
    Init /\ [][LiveNext]_vars /\ WF_vars(LiveTick) /\ WF_vars(PublishRunning)

\* ------------------------------------------------------ the Stats object
\* stats_.name(v): the object afterwards, the exception raised ("" if none)
\* and the value returned.  A name the class does not define raises
\* AttributeError.
stats_call(stats_, name, v) ==
    IF name \notin StatsMethods
    THEN [ stats |-> stats_, exc |-> "AttributeError", value |-> 0 ]
    ELSE IF name = "set_pods_count"
    THEN [ stats |-> [stats_ EXCEPT !.pods_count = v], exc |-> "", value |-> 0 ]
    ELSE IF name = "set_pipeline_last_run_time"
    THEN [ stats |-> [stats_ EXCEPT !.pipeline_last_run_time = v],
           exc |-> "", value |-> 0 ]
    ELSE IF name = "get_pods_count"
    THEN [ stats |-> stats_, exc |-> "", value |-> stats_.pods_count ]
    ELSE [ stats |-> stats_, exc |-> "", value |-> stats_.pipeline_last_run_time ]

\* What a call of a setter is remembered as.
remember(last_set_, name, v) ==
    IF name = "set_pods_total" THEN [last_set_ EXCEPT !.pods_total = v]
    ELSE IF name = "set_pods_running" THEN [last_set_ EXCEPT !.pods_running = v]
    ELSE IF name = "set_pipeline_last_run_time"
    THEN [last_set_ EXCEPT !.pipeline_last_run_time = v]
    ELSE last_set_

\* What a Stats call leaves alone: the manager.
StatsFrame ==
    UNCHANGED << current_state, cycle_start_time, pod_id, pod_url,
                 last_count_update_time, last_idle_check_time, now,
                 shutdown_event, pods_total, pods_running,
                 pipeline_last_run_time, pc, counts, critical_logged,
                 run_raised, rest_shutdown_calls, exit_calls, patched, tick_log, ticks,
                 cycle, cycle_healthy, idle_wait_start, last_check, left_by,
                 cycle_log, lock, threads, store_log, server >>

\* A setter of the Stats object is called.
CallStatsSetter ==
    /\ probe.n < MaxCalls + 1
    /\ \E name \in StatsSetters, v \in StatValues :
         /\ stats' = stats_call(stats, name, v).stats
         /\ last_set' = remember(last_set, name, v)
         /\ probe' = [ n |-> probe.n + 1, op |-> name, input |-> << v >>,
                       result |-> [ exc |-> stats_call(stats, name, v).exc,
                                    value |-> stats_call(stats, name, v).value ] ]
    /\ StatsFrame

\* A getter of the Stats object is called.
CallStatsGetter ==
    /\ probe.n < MaxCalls + 1
    /\ \E name \in StatsGetters :
         /\ stats' = stats_call(stats, name, 0).stats
         /\ probe' = [ n |-> probe.n + 1, op |-> name, input |-> << >>,
                       result |-> [ exc |-> stats_call(stats, name, 0).exc,
                                    value |-> stats_call(stats, name, 0).value ] ]
    /\ UNCHANGED last_set
    /\ StatsFrame

StatsNext == CallStatsSetter \/ CallStatsGetter

StatsSpec == Init /\ [][StatsNext]_vars

\* ------------------------------------- the Stats object called concurrently
\* What a step of a thread in a Stats method leaves alone.
StoreFrame ==
    UNCHANGED << current_state, cycle_start_time, pod_id, pod_url,
                 last_count_update_time, last_idle_check_time, now,
                 shutdown_event, pods_total, pods_running,
                 pipeline_last_run_time, pc, counts, critical_logged,
                 run_raised, rest_shutdown_calls, exit_calls, patched, tick_log, ticks,
                 cycle, cycle_healthy, idle_wait_start, last_check, left_by,
                 probe, last_set, cycle_log, server >>

\* The methods of Stats that write a field.
Writers == { "set_pods_count", "set_pipeline_last_run_time" }

\* Mutant: the block is entered whoever holds the lock.
lock_acquire_unguarded(lock_) == TRUE
\* `with self._lock:` is entered when nobody holds the lock; the thread waits
\* otherwise.
lock_acquire(lock_) == lock_ = ""

\* Mutant: leaving the with block does not give the lock back.
lock_release_keeps_lock(lock_) == lock_
\* The with block is left, by return or by exception: the lock is free.
lock_release(lock_) == ""

\* Thread t calls a method of the Stats object and arrives at `with self._lock`.
Invoke(t) ==
    /\ threads[t].pc = "idle"
    /\ store_log.n < MaxCalls + 1
    /\ \E name \in StatsMethods, v \in StatValues \ { 0 } :
         threads' = [ threads EXCEPT ![t] =
                        [ pc |-> "acquire", op |-> name,
                          arg |-> IF name \in Writers THEN v ELSE 0, ret |-> 0 ] ]
    /\ store_log' = [ store_log EXCEPT !.n = @ + 1 ]
    /\ UNCHANGED << lock, stats >>
    /\ StoreFrame

\* Thread t enters the with block.
Acquire(t) ==
    /\ threads[t].pc = "acquire"
    /\ lock_acquire(lock)
    /\ lock' = t
    /\ threads' = [ threads EXCEPT ![t].pc = "locked" ]
    /\ UNCHANGED << stats, store_log >>
    /\ StoreFrame

\* Thread t executes the body of the with block: one read or one write of a
\* field.
Access(t) ==
    /\ threads[t].pc = "locked"
    /\ stats' = stats_call(stats, threads[t].op, threads[t].arg).stats
    /\ threads' = [ threads EXCEPT
                      ![t].pc = "release",
                      ![t].ret = stats_call(stats, threads[t].op,
                                            threads[t].arg).value ]
    /\ UNCHANGED << lock, store_log >>
    /\ StoreFrame

\* Thread t leaves the with block and the method returns; the record keeps
\* what the call was and what it returned.
Release(t) ==
    /\ threads[t].pc = "release"
    /\ lock' = lock_release(lock)
    /\ threads' = [ threads EXCEPT ![t].pc = "idle" ]
    /\ store_log' =
         IF threads[t].op \in Writers
         THEN [ store_log EXCEPT ![field_of(threads[t].op)] =
                                    @ \cup { threads[t].arg } ]
         ELSE store_log
    /\ UNCHANGED stats
    /\ StoreFrame

StoreNext ==
    \E t \in Threads : Invoke(t) \/ Acquire(t) \/ Access(t) \/ Release(t)

StoreSpec == Init /\ [][StoreNext]_vars

\* ------------------------------------------------------ the CallbackServer
\* A response: the status, the body, the view function that produced it ("" if
\* none ran) and the exception that left the view function ("" if none).
Response(status, body, handler) ==
    [ status |-> status, body |-> body, handler |-> handler, exc |-> "" ]
Forbidden(message) ==
    Response(403, Json([ error |-> "Forbidden", message |-> message ]), "")
\* before_request lets the request through.
Allowed == Response(0, Text(""), "")

\* Mutant: any key that is provided opens the gate.
check_api_key_any_key(api_key, req) ==
    IF api_key # NoKey
    THEN IF ~req.api_key.present \/ req.api_key.value = ""
         THEN Forbidden("API key required")
         ELSE Allowed
    ELSE Allowed
\* _check_api_key: `not provided_key` holds for an absent parameter and for an
\* empty one.
check_api_key(api_key, req) ==
    IF api_key # NoKey
    THEN IF ~req.api_key.present \/ req.api_key.value = ""
         THEN Forbidden("API key required")
         ELSE IF req.api_key.value # api_key
         THEN Forbidden("Invalid API key")
         ELSE Allowed
    ELSE Allowed

\* _register_routes: the rules of the application.
url_map ==
    { [ rule |-> "/stats/pods-count", methods |-> { "GET" },
        endpoint |-> "get_pods_count" ],
      [ rule |-> "/stats/pipeline-last-run-time", methods |-> { "GET" },
        endpoint |-> "get_pipeline_last_run_time" ],
      [ rule |-> "/logs", methods |-> { "POST" }, endpoint |-> "handle_logs" ] }

InternalServerError == "Internal Server Error"

\* Mutant: an exception of the Stats object leaves the view function.
get_pods_count_handler_unguarded(stats_, fault) ==
    IF fault = "stats"
    THEN [ status |-> 500, body |-> Text(InternalServerError),
           handler |-> "get_pods_count", exc |-> "Exception" ]
    ELSE Response(200,
                  Json([ pods_count |->
                           stats_call(stats_, "get_pods_count", 0).value ]),
                  "get_pods_count")
get_pods_count_handler(stats_, fault) ==
    IF fault = "stats"
    THEN Response(500, Json([ error |-> InternalServerError ]), "get_pods_count")
    ELSE Response(200,
                  Json([ pods_count |->
                           stats_call(stats_, "get_pods_count", 0).value ]),
                  "get_pods_count")

get_last_run_time_handler(stats_, fault) ==
    IF fault = "stats"
    THEN Response(500, Json([ error |-> InternalServerError ]),
                  "get_pipeline_last_run_time")
    ELSE Response(200,
                  Json([ pipeline_last_run_time |->
                           stats_call(stats_, "get_pipeline_last_run_time",
                                      0).value ]),
                  "get_pipeline_last_run_time")

\* json.loads(data) followed by parsed_json.items(): the exception raised, ""
\* if none.  Only a JSON object has items().
json_loads_items(body) ==
    IF body = "object" THEN ""
    ELSE IF body = "array" THEN "AttributeError"
    ELSE IF body = "malformed" THEN "JSONDecodeError"
    ELSE "UnicodeDecodeError"

\* handle_logs_handler: the inner except catches json.JSONDecodeError only,
\* the outer one every Exception.
handle_logs_handler(req, fault) ==
    IF fault = "get_data"
    THEN Response(500, Text(InternalServerError), "handle_logs")
    ELSE IF req.content_type = "application/json"
            /\ json_loads_items(req.body) \notin { "", "JSONDecodeError" }
    THEN Response(500, Text(InternalServerError), "handle_logs")
    ELSE Response(200, Text("OK"), "handle_logs")

\* The view function of an endpoint.
view_func(endpoint, stats_, req, fault) ==
    IF endpoint = "get_pods_count" THEN get_pods_count_handler(stats_, fault)
    ELSE IF endpoint = "get_pipeline_last_run_time"
    THEN get_last_run_time_handler(stats_, fault)
    ELSE handle_logs_handler(req, fault)

\* Mutant: the hook guards the route that writes, the routes that read are open.
full_dispatch_request_gates_logs_only(server_, stats_, req, fault) ==
    LET gate == IF req.path = "/logs" THEN check_api_key(server_.api_key, req)
                ELSE Allowed
        rules == { r \in url_map : r.rule = req.path }
        matching == { r \in rules : req.method \in r.methods }
    IN  IF gate # Allowed THEN gate
        ELSE IF rules = {} THEN Response(404, Text("Not Found"), "")
        ELSE IF matching = {} THEN Response(405, Text("Method Not Allowed"), "")
        ELSE view_func((CHOOSE r \in matching : TRUE).endpoint, stats_, req, fault)

\* The application answers a request: the before_request hook, then the rule
\* that matches the path and the method (Flask answers 404 and 405 itself),
\* then the view function; an exception that leaves a view function is turned
\* into a 500 by Flask.
full_dispatch_request(server_, stats_, req, fault) ==
    LET gate == check_api_key(server_.api_key, req)
        rules == { r \in url_map : r.rule = req.path }
        matching == { r \in rules : req.method \in r.methods }
    IN  IF gate # Allowed THEN gate
        ELSE IF rules = {} THEN Response(404, Text("Not Found"), "")
        ELSE IF matching = {} THEN Response(405, Text("Method Not Allowed"), "")
        ELSE view_func((CHOOSE r \in matching : TRUE).endpoint, stats_, req, fault)

\* server.<name>(v): update_pods_count and update_pipeline_last_run_time are the
\* update methods the class defines.
server_update(stats_, name, v) ==
    IF name = "update_pods_count" THEN stats_call(stats_, "set_pods_count", v)
    ELSE IF name = "update_pipeline_last_run_time"
    THEN stats_call(stats_, "set_pipeline_last_run_time", v)
    ELSE [ stats |-> stats_, exc |-> "AttributeError", value |-> 0 ]
\* The setter an update method stands for.
setter_of(name) ==
    IF name = "update_pods_count" THEN "set_pods_count"
    ELSE IF name = "update_pods_total" THEN "set_pods_total"
    ELSE IF name = "update_pods_running" THEN "set_pods_running"
    ELSE "set_pipeline_last_run_time"

\* start(): a daemon thread runs app.run().
CallbackServer_start(server_) ==
    [ server_ EXCEPT !.thread = "Thread", !.worker = "running" ]

\* Mutant: join() is called whatever self.thread is.
CallbackServer_shutdown_joins_always(server_) ==
    IF server_.thread = "None"
    THEN [ server |-> [ server_ EXCEPT !.stop_event = TRUE ], joined |-> FALSE,
           exc |-> "AttributeError" ]
    ELSE [ server |-> [ server_ EXCEPT !.stop_event = TRUE, !.thread = "None" ],
           joined |-> TRUE, exc |-> "" ]
\* shutdown(): the server afterwards, whether join(timeout=2.0) was called,
\* and the exception raised ("" if none).
CallbackServer_shutdown(server_) ==
    [ server |-> [ server_ EXCEPT !.stop_event = TRUE, !.thread = "None" ],
      joined |-> server_.thread # "None" /\ server_.worker = "running",
      exc |-> "" ]

\* What a call on the server or a request leaves alone: the manager and the
\* threads of StoreSpec.
ServerFrame ==
    UNCHANGED << current_state, cycle_start_time, pod_id, pod_url,
                 last_count_update_time, last_idle_check_time, now,
                 shutdown_event, pods_total, pods_running,
                 pipeline_last_run_time, pc, counts, critical_logged,
                 run_raised, rest_shutdown_calls, exit_calls, patched, tick_log, ticks,
                 cycle, cycle_healthy, idle_wait_start, last_check, left_by,
                 cycle_log, lock, threads, store_log >>

\* server.start()
Start ==
    /\ probe.n < MaxCalls + 1
    /\ server' = CallbackServer_start(server)
    /\ probe' = [ n |-> probe.n + 1, op |-> "start", input |-> << server >>,
                  result |-> [ exc |-> "" ] ]
    /\ UNCHANGED << stats, last_set >>
    /\ ServerFrame

\* app.run() returns or raises in the worker thread: run_server ends.
WorkerExits ==
    /\ server.worker = "running"
    /\ server' = [ server EXCEPT !.worker = "finished" ]
    /\ UNCHANGED << probe, stats, last_set >>
    /\ ServerFrame

\* server.shutdown(); the worker may end while join() waits for it.
Shutdown ==
    /\ probe.n < MaxCalls + 1
    /\ \E ends \in BOOLEAN :
         LET r == CallbackServer_shutdown(server)
         IN  /\ server' = IF r.joined /\ ends
                          THEN [ r.server EXCEPT !.worker = "finished" ]
                          ELSE r.server
             /\ probe' = [ n |-> probe.n + 1, op |-> "shutdown",
                           input |-> << server >>,
                           result |-> [ joined |-> r.joined, exc |-> r.exc ] ]
    /\ UNCHANGED << stats, last_set >>
    /\ ServerFrame

\* The application handles a request.
Request ==
    /\ probe.n < MaxCalls + 1
    /\ \E req \in Requests : \E fault \in FaultsOf(req) :
         probe' = [ n |-> probe.n + 1, op |-> "request",
                    input |-> << req, fault >>,
                    result |-> full_dispatch_request(server, stats, req, fault) ]
    /\ UNCHANGED << server, stats, last_set >>
    /\ ServerFrame

\* An update method of the server is called.
Update ==
    /\ probe.n < MaxCalls + 1
    /\ \E name \in ServerUpdaters, v \in StatValues \ { 0 } :
         /\ stats' = server_update(stats, name, v).stats
         /\ last_set' = remember(last_set, setter_of(name), v)
         /\ probe' = [ n |-> probe.n + 1, op |-> name, input |-> << v >>,
                       result |-> [ exc |-> server_update(stats, name, v).exc ] ]
    /\ UNCHANGED server
    /\ ServerFrame

\* A server constructed as the fixtures do, with or without a key, its routes
\* registered.
ServerInit ==
    /\ Constructed
    /\ \E api_key \in ApiKeys, env_key \in ApiKeys :
         server = CallbackServer(api_key, env_key)

ServerNext == Start \/ WorkerExits \/ Shutdown \/ Request \/ Update

ServerSpec == ServerInit /\ [][ServerNext]_vars

\* ------------------------------------------- the methods called one by one
\* What a direct call leaves alone: the locals and the exit of run().
UnitFrame ==
    UNCHANGED << current_state, cycle_start_time, pod_id, pod_url,
                 last_count_update_time, last_idle_check_time, shutdown_event,
                 critical_logged, run_raised, rest_shutdown_calls, exit_calls, patched,
                 tick_log, ticks, cycle, cycle_healthy, idle_wait_start,
                 last_check, left_by, stats, last_set,
                    cycle_log, lock, threads, store_log, server >>

\* Time that passes before a direct call reads the clock.
UnitBusy == { 0, POD_STATUS_CHECK_INTERVAL }

\* manager._trigger_pipeline_run(pod_url): answers is what the pod and the
\* network would answer to a first and to a second attempt of the POST.
CallTriggerPipelineRun ==
    /\ probe.n < MaxCalls
    /\ pc = "loop"
    /\ \E r1 \in RunResponses, r2 \in RetryAnswers, b \in UnitBusy :
         LET ok == trigger_pipeline_run(post(<< r1, r2 >>))
         IN  /\ now' = now + b
             /\ pipeline_last_run_time' =
                  IF ok THEN trigger_time(now + b) ELSE pipeline_last_run_time
             /\ probe' = [ n |-> probe.n + 1, op |-> "trigger_run",
                           input |-> << r1, r2 >>, result |-> Bool(ok) ]
    /\ UNCHANGED << pods_total, pods_running, pc, counts >>
    /\ UnitFrame

\* manager._check_pod_idle_status(pod_url), the pod answering resp.
CallCheckPodIdleStatus ==
    /\ probe.n < MaxCalls
    /\ pc = "loop"
    /\ \E resp \in StatusResponses, b \in UnitBusy :
         /\ now' = now + b
         /\ probe' = [ n |-> probe.n + 1, op |-> "check_idle",
                       input |-> << resp >>,
                       result |-> Bool(check_pod_idle_status(resp)) ]
    /\ UNCHANGED << pods_total, pods_running, pipeline_last_run_time, pc,
                    counts >>
    /\ UnitFrame

\* manager._update_pod_counts(), count_pods() answering cnt: up to the call of
\* update_pods_total; PublishRunning is the rest of it.
CallUpdatePodCounts ==
    /\ probe.n < MaxCalls
    /\ pc = "loop"
    /\ \E cnt \in CountResults :
         /\ pods_total' = IF update_pod_counts(cnt) THEN cnt.total ELSE pods_total
         /\ counts' = IF update_pod_counts(cnt)
                      THEN [total |-> cnt.total, running |-> cnt.running]
                      ELSE counts
         /\ pc' = IF update_pod_counts(cnt) THEN "update_pods_running" ELSE "loop"
         /\ probe' = [ n |-> probe.n + 1, op |-> "count", input |-> << cnt >>,
                       result |-> Bool(update_pod_counts(cnt)) ]
    /\ UNCHANGED << now, pods_running, pipeline_last_run_time >>
    /\ UnitFrame

UnitNext ==
    \/ CallTriggerPipelineRun
    \/ CallCheckPodIdleStatus
    \/ CallUpdatePodCounts
    \/ PublishRunning

UnitSpec == Init /\ [][UnitNext]_vars

\* ---------------------------------------------------------------- the claims
\* A step that is one iteration of the loop.
Ticked == ticks' = ticks + 1
Terminations(calls) == Cardinality(Made(calls, "terminate_all"))

\* C1: an iteration that begins in a phase other than STARTING_CYCLE with at
\* least CYCLE_DURATION elapsed since the cycle's start handles STARTING_CYCLE
\* first, whatever the phase was: a new cycle begins whose start time is the
\* iteration's clock reading.  And a reset happens only then: a cycle that has
\* begun is not reset before a full CYCLE_DURATION has passed since its start.
C1_HourlyReset ==
    [][ Ticked /\ current_state # STATE_STARTING_CYCLE =>
          /\ (now' - cycle_start_time >= CYCLE_DURATION =>
                /\ tick_log'.handled[1] = STATE_STARTING_CYCLE
                /\ cycle' = cycle + 1
                /\ cycle_start_time' = now')
          /\ (now' - cycle_start_time < CYCLE_DURATION =>
                /\ ~Handled(tick_log', STATE_STARTING_CYCLE)
                /\ cycle' = cycle
                /\ cycle_start_time' = cycle_start_time) ]_vars

\* C1 witness: the third cycle has just begun by a reset that came exactly
\* CYCLE_DURATION after the start of the second, the first cycle having been
\* reset out of UPDATING_COUNTS.
C1_Witness ==
    /\ cycle = 3
    /\ tick_log.reset
    /\ cycle_start_time = now
    /\ pipeline_last_run_time > 0
    /\ now - pipeline_last_run_time > CYCLE_DURATION

\* C2 (as claimed): a cycle whose collaborators were healthy throughout has
\* reached UPDATING_COUNTS, its trigger_run made, when the hourly reset ends it:
\* also a cycle that was itself begun by the hourly reset.
C2_EveryCycleRuns ==
    [][ Ticked /\ tick_log'.reset /\ cycle_healthy =>
          current_state = STATE_UPDATING_COUNTS ]_vars

\* A failed call of one of the four operations the claim C3 names.
Failure(c) ==
    \/ c.op = "ensure_started" /\ c.res # "pod"
    \/ c.op = "check_idle" /\ c.res = "false"
    \/ c.op = "trigger_run" /\ c.res = "false"
    \/ c.op = "count" /\ c.res # "valid"
FailedIn(calls, op) == { i \in Made(calls, op) : Failure(calls[i]) }

\* C3 (as claimed): an iteration in which ensure_started, check_idle,
\* trigger_run or count fails ends in WAITING_AFTER_FAILURE and has invoked
\* terminate_all exactly once.
C3_AnyFailureCoolsDown ==
    (\E i \in 1..Len(tick_log.calls) : Failure(tick_log.calls[i])) =>
        /\ current_state = STATE_WAITING_AFTER_FAILURE
        /\ Terminations(tick_log.calls) = 1

\* C3 (amended): a failure of ensure_started or of trigger_run ends the
\* iteration in WAITING_AFTER_FAILURE with terminate_all invoked exactly once;
\* a check_idle that fails leaves the phase WAITING_FOR_IDLE and a count that
\* fails leaves it UPDATING_COUNTS, terminate_all not being invoked.
C3_StartOrRunFailureCoolsDown ==
    /\ FailedIn(tick_log.calls, "ensure_started")
         \cup FailedIn(tick_log.calls, "trigger_run") # {} =>
            /\ current_state = STATE_WAITING_AFTER_FAILURE
            /\ Terminations(tick_log.calls) = 1
    /\ FailedIn(tick_log.calls, "check_idle") # {} =>
            /\ current_state = STATE_WAITING_FOR_IDLE
            /\ Terminations(tick_log.calls) = 0
    /\ FailedIn(tick_log.calls, "count") # {} =>
            /\ current_state = STATE_UPDATING_COUNTS
            /\ Terminations(tick_log.calls) = 0

\* C3 witness: trigger_run has failed in an iteration that began in
\* WAITING_FOR_IDLE, after ensure_started had succeeded.
C3_Witness ==
    /\ FailedIn(tick_log.calls, "trigger_run") # {}
    /\ tick_log.handled[1] = STATE_WAITING_FOR_IDLE
    /\ current_state = STATE_WAITING_AFTER_FAILURE

\* C4: an iteration that begins in WAITING_FOR_IDLE when the cycle has waited
\* for STATUS_CHECK_TIMEOUT or longer (and its duration is not over) invokes
\* terminate_all once and ends in WAITING_AFTER_FAILURE; it does not ask the pod
\* again and leaves the time of the last idle check as it was.
C4_IdleTimeout ==
    [][ /\ Ticked
        /\ current_state = STATE_WAITING_FOR_IDLE
        /\ now' - idle_wait_start >= STATUS_CHECK_TIMEOUT
        /\ now' - cycle_start_time < CYCLE_DURATION
        => /\ current_state' = STATE_WAITING_AFTER_FAILURE
           /\ Terminations(tick_log'.calls) = 1
           /\ Made(tick_log'.calls, "check_idle") = {}
           /\ last_idle_check_time' = last_idle_check_time ]_vars

\* C4 witness: the wait has timed out in an iteration that began in
\* WAITING_FOR_IDLE, the last idle check being older than the check interval.
C4_Witness ==
    /\ tick_log.timed_out
    /\ tick_log.handled[1] = STATE_WAITING_FOR_IDLE
    /\ current_state = STATE_WAITING_AFTER_FAILURE
    /\ now - last_idle_check_time >= POD_STATUS_CHECK_INTERVAL
    /\ pipeline_last_run_time = 0

\* C5 (as claimed): WAITING_FOR_IDLE takes its timeout path only when the cycle
\* has been waiting for idle for STATUS_CHECK_TIMEOUT or longer; an iteration
\* that handles WAITING_FOR_IDLE earlier does not time out, and does not invoke
\* terminate_all unless the trigger it went on to failed.
C5_TimeoutOnlyAfterWait ==
    Handled(tick_log, STATE_WAITING_FOR_IDLE)
      /\ now - idle_wait_start < STATUS_CHECK_TIMEOUT =>
        /\ ~tick_log.timed_out
        /\ \/ Terminations(tick_log.calls) = 0
           \/ FailedIn(tick_log.calls, "trigger_run") # {}

\* C6: an iteration asks the pod for its status at most once, and two
\* consecutive status checks of one cycle are at least
\* POD_STATUS_CHECK_INTERVAL apart in the loop's clock readings.
C6_IdleCheckInterval ==
    [][ Ticked =>
          /\ Cardinality(Made(tick_log'.calls, "check_idle")) <= 1
          /\ (Made(tick_log'.calls, "check_idle") # {} /\ cycle' = cycle /\ last_check > 0
                => now' - last_check >= POD_STATUS_CHECK_INTERVAL) ]_vars

\* C6 witness: the second status check of a cycle, made one sleep and one
\* check interval after the first: the iteration in between, one sleep after
\* the first check, did not ask.
C6_Witness ==
    /\ Made(tick_log.calls, "check_idle") # {}
    /\ tick_log.handled[1] = STATE_WAITING_FOR_IDLE
    /\ now - idle_wait_start = MAIN_LOOP_SLEEP + POD_STATUS_CHECK_INTERVAL

\* C7: whatever count_pods() gives, an iteration that handles UPDATING_COUNTS
\* ends in UPDATING_COUNTS; an iteration that begins there before the cycle's
\* duration is over handles nothing else and invokes no terminate_all, so the
\* phase is left only by the hourly reset.
C7_UpdatingCountsStays ==
    [][ Ticked =>
          /\ (Handled(tick_log', STATE_UPDATING_COUNTS)
                => current_state' = STATE_UPDATING_COUNTS)
          /\ (current_state = STATE_UPDATING_COUNTS
                /\ now' - cycle_start_time < CYCLE_DURATION
                => /\ current_state' = STATE_UPDATING_COUNTS
                   /\ tick_log'.handled = << STATE_UPDATING_COUNTS >>
                   /\ Terminations(tick_log'.calls) = 0) ]_vars

\* C7 witness: count_pods() has raised in an iteration that began in
\* UPDATING_COUNTS, and the phase is still UPDATING_COUNTS.
C7_Witness ==
    /\ current_state = STATE_UPDATING_COUNTS
    /\ tick_log.handled = << STATE_UPDATING_COUNTS >>
    /\ \E i \in 1..Len(tick_log.calls) :
         tick_log.calls[i] = Call("count", "", "raise")

\* C8: an iteration that begins in WAITING_AFTER_FAILURE before the cycle's
\* duration has elapsed ends in WAITING_AFTER_FAILURE, handles nothing else and
\* calls no collaborator.
C8_CooldownHolds ==
    [][ /\ Ticked
        /\ current_state = STATE_WAITING_AFTER_FAILURE
        /\ now' - cycle_start_time < CYCLE_DURATION
        => /\ current_state' = STATE_WAITING_AFTER_FAILURE
           /\ tick_log'.handled = << STATE_WAITING_AFTER_FAILURE >>
           /\ tick_log'.calls = << >> ]_vars

\* C8 witness: an iteration spent wholly in the cooldown, begun by a failure
\* longer ago than the idle-wait timeout.
C8_Witness ==
    /\ current_state = STATE_WAITING_AFTER_FAILURE
    /\ tick_log.handled = << STATE_WAITING_AFTER_FAILURE >>
    /\ now - cycle_start_time >= STATUS_CHECK_TIMEOUT

\* C9: when no shutdown signal arrives and the clock keeps advancing, from
\* every state whose cycle the horizon lets run to its end, whatever has failed
\* in it, new cycles keep beginning: an iteration follows that resets the
\* cycle, handles STARTING_CYCLE again and invokes ensure_started again, and
\* this repeats until the cycle under way is the last the horizon has room for.
C9_NewCycleBegins ==
    (cycle_start_time + 2 * CYCLE_DURATION <= MaxTime)
      ~> (/\ cycle_start_time + 2 * CYCLE_DURATION > MaxTime
          /\ tick_log.reset
          /\ Handled(tick_log, STATE_STARTING_CYCLE)
          /\ Made(tick_log.calls, "ensure_started") # {})

\* C9 witness: the second cycle has begun by the reset, with ensure_started
\* invoked, after a first cycle that never got a run triggered.
C9_Witness ==
    /\ cycle = 2
    /\ tick_log.reset
    /\ Made(tick_log.calls, "ensure_started") # {}
    /\ pipeline_last_run_time = 0
    /\ ~shutdown_event

\* C10: an iteration that computes a state outside VALID_STATES ends run(): the
\* error is logged as critical, the shutdown event is set, _shutdown() has run
\* once, nothing is raised out of run(), and no iteration follows.
C10_InvalidPhaseStops ==
    [][ /\ (current_state' \notin VALID_STATES
              => /\ pc' = "stopped"
                 /\ shutdown_event'
                 /\ critical_logged'
                 /\ ~run_raised'
                 /\ rest_shutdown_calls' = 1)
        /\ (current_state \notin VALID_STATES => ticks' = ticks) ]_vars

\* C10 witness: the patched handler has answered the invalid state at the
\* start of the second cycle and run() has stopped.
C10_Witness ==
    /\ current_state = INVALID_STATE
    /\ cycle = 2
    /\ pc = "stopped"
    /\ critical_logged

\* C11: however run() has left its loop (the event found set, a
\* KeyboardInterrupt, an invalid state or another exception), nothing was
\* raised out of run(), the shutdown event is set if an exception ended the
\* loop, and rest_interface.shutdown() has been called exactly once; and it is
\* not called while run() is in its loop.
C11_RunEndsCleanly ==
    /\ pc = "stopped" =>
          /\ left_by \in {"none", "KeyboardInterrupt", "Exception"}
          /\ ~run_raised
          /\ rest_shutdown_calls = 1
          /\ (left_by # "none" => shutdown_event)
    /\ pc # "stopped" => rest_shutdown_calls = 0 /\ left_by = ""

\* C11 witness: a KeyboardInterrupt has ended run() after two iterations,
\* without a critical log.
C11_Witness ==
    /\ pc = "stopped"
    /\ left_by = "KeyboardInterrupt"
    /\ ticks = 2
    /\ shutdown_event
    /\ ~critical_logged

\* C12: the shutdown event, once set, stays set; no iteration begins while it
\* is set; the iteration under way when it is set completes (its counts are
\* published), and the loop, finding it set, exits to _shutdown().
C12_ShutdownIsTerminal ==
    [][ shutdown_event =>
          /\ shutdown_event'
          /\ ticks' = ticks
          /\ (pc = "update_pods_running" =>
                 pc' = "loop" /\ pods_running' = counts.running)
          /\ (pc = "loop" => pc' = "stopped" /\ rest_shutdown_calls' = 1) ]_vars

\* C12 witness: the signal has arrived while an iteration was publishing its
\* counts.
C12_Witness ==
    /\ shutdown_event
    /\ pc = "update_pods_running"
    /\ counts.running # pods_running

\* C13 (as claimed): _trigger_pipeline_run returns true only when the pod has
\* answered 200 with a JSON object whose "success" is the boolean true.
C13_SuccessNeedsIndicator ==
    probe.op = "trigger_run" /\ probe.result = "true" =>
        /\ probe.input[1].code = 200
        /\ probe.input[1].json = "object"
        /\ probe.input[1].success = "true"

\* A step in which _trigger_pipeline_run has returned true: in an iteration
\* of run(), or called directly.
TriggeredRun ==
    \/ /\ Ticked
       /\ \E i \in Made(tick_log'.calls, "trigger_run") :
             tick_log'.calls[i].res = "true"
    \/ /\ probe'.n = probe.n + 1
       /\ probe'.op = "trigger_run"
       /\ probe'.result = "true"

\* C14: a step in which _trigger_pipeline_run returns true sets
\* pipeline_last_run_time to the clock reading of the call; every other step
\* (a trigger that returns false, any other method, any other iteration)
\* leaves it as it was.
C14_LastRunTimeOnlyOnSuccess ==
    [][ IF TriggeredRun THEN pipeline_last_run_time' = now'
        ELSE pipeline_last_run_time' = pipeline_last_run_time ]_vars

\* C14 witness: a trigger has just returned false after an earlier one had
\* succeeded, and the time of the earlier one is still the one published.
C14_Witness ==
    /\ probe.op = "trigger_run"
    /\ probe.result = "false"
    /\ probe.n = 2
    /\ pipeline_last_run_time = StartTime
    /\ now > pipeline_last_run_time

\* C15 (as claimed): the POST of _trigger_pipeline_run is tried again after a
\* network-level failure: when the first attempt fails in the network and a
\* second would be answered with a success, the call returns true.
C15_TransportRetried ==
    /\ probe.op = "trigger_run"
    /\ probe.input[1].code = 0
    /\ probe.input[2].code = 200
    => probe.result = "true"

C17_PodStartFailure ==
    /\ \A i \in Made(tick_log.calls, "ensure_started") :
         tick_log.calls[i].res \in {"falsy", "raise"} =>
            /\ Terminations(tick_log.calls) = 1
            /\ tick_log.calls[i + 1].op = "terminate_all"
            /\ pod_id = ""
    /\ cycle >= 1 /\ pod_id = "" =>
            /\ current_state = STATE_WAITING_AFTER_FAILURE
            /\ pod_url = ""
            /\ Made(tick_log.calls, "check_idle") = {}
            /\ Made(tick_log.calls, "trigger_run") = {}

\* C17 witness: the start manager has raised at the start of the second
\* cycle.
C17_Witness ==
    /\ cycle = 2
    /\ tick_log.calls[1] = Call("ensure_started", "", "raise")
    /\ current_state = STATE_WAITING_AFTER_FAILURE
    /\ pod_id = ""

\* C18: an iteration in which the terminate manager returns a falsy value or
\* raises ends in WAITING_AFTER_FAILURE as one in which it succeeds does: run()
\* goes on, the shutdown event is left as it was and nothing is logged as
\* critical.
C18_TerminateFailureSwallowed ==
    [][ /\ Ticked
        /\ \E i \in Made(tick_log'.calls, "terminate_all") :
              tick_log'.calls[i].res \in {"falsy", "raise"}
        => /\ current_state' = STATE_WAITING_AFTER_FAILURE
           /\ shutdown_event' = shutdown_event
           /\ pc' = "loop"
           /\ left_by' = ""
           /\ ~critical_logged' ]_vars

\* C18 witness: the terminate manager has raised on the timeout of the idle
\* wait, and the machine is in its cooldown with the event not set.
C18_Witness ==
    /\ tick_log.timed_out
    /\ \E i \in Made(tick_log.calls, "terminate_all") :
          tick_log.calls[i].res = "raise"
    /\ current_state = STATE_WAITING_AFTER_FAILURE
    /\ ~shutdown_event
    /\ pc = "loop"

C20_StatsRoundTrip ==
    /\ probe.op \in { "get_pods_total", "get_pods_running",
                      "get_pipeline_last_run_time", "get_all_stats" } =>
          probe.result.exc = ""
    /\ probe.op = "get_pods_total" => probe.result.value = last_set.pods_total
    /\ probe.op = "get_pods_running" => probe.result.value = last_set.pods_running
    /\ probe.op = "get_pipeline_last_run_time" =>
          probe.result.value = last_set.pipeline_last_run_time
    /\ probe.op = "get_all_stats" => probe.result.value = last_set

\* The threads inside a with block of the Stats object.
InBlock == { t \in Threads : threads[t].pc \in { "locked", "release" } }
\* The threads whose last call of a getter has read its field.
Readers ==
    { t \in Threads : /\ threads[t].op \in StatsMethods \ Writers
                      /\ threads[t].pc \in { "release", "idle" } }

\* C21: every read and every write of the Stats object executes while the
\* calling thread holds the object's one lock, so at most one thread is
\* inside a with block at a time; the value a getter has read is still the
\* field's value for as long as the getter is inside its block; and every value
\* a getter returns is the initial 0 or a value passed to a setter that had
\* left its block before: each call takes effect at one instant between its
\* invocation and its return.
C21_StoreAccessUnderLock ==
    /\ \A t \in InBlock : lock = t
    /\ Cardinality(InBlock) <= 1
    /\ \A t \in Readers :
         /\ threads[t].pc = "release" =>
              threads[t].ret = stats[field_of(threads[t].op)]
         /\ threads[t].ret \in { 0 } \cup store_log[field_of(threads[t].op)]
\* A getter inside its with block has read a value a setter wrote, while
\* another thread waits for the lock.
C21_Witness ==
    \E t \in Readers, u \in Threads :
        /\ threads[t].pc = "release" /\ threads[t].ret # 0
        /\ threads[u].pc = "acquire"

\* The last request handled, the fault injected while it was, and the answer.
Req == probe.input[1]
Fault == probe.input[2]
Res == probe.result
\* The endpoints whose rule matches the path and the method of a request.
Routed(req) ==
    { r.endpoint : r \in { u \in url_map : u.rule = req.path
                                            /\ req.method \in u.methods } }

\* C22 as stated: with a key configured, a request to any route is answered
\* 403 "API key required" if it has no api_key parameter, 403 "Invalid API key"
\* if the parameter differs from the configured key, and reaches the route's
\* view function only if the parameter equals the key; without a configured
\* key no request is refused and every request to a route reaches its view
\* function.
C22_GateMissingOrDiffers ==
    probe.op = "request" =>
        IF server.api_key # NoKey
        THEN /\ ~Req.api_key.present => Res = Forbidden("API key required")
             /\ Req.api_key.present /\ Req.api_key.value # server.api_key =>
                    Res = Forbidden("Invalid API key")
             /\ Res.handler # "" =>
                    Req.api_key.present /\ Req.api_key.value = server.api_key
             /\ Req.api_key.present /\ Req.api_key.value = server.api_key =>
                    Res.status # 403 /\ Routed(Req) \subseteq { Res.handler }
        ELSE Res.status # 403 /\ Routed(Req) \subseteq { Res.handler }
\* C22, amended: a parameter that is present but empty is answered as a missing
\* one, 403 "API key required"; "Invalid API key" answers a non-empty
\* parameter that differs from the key.  The rest is as stated.
C22_GateEmptyIsMissing ==
    probe.op = "request" =>
        IF server.api_key # NoKey
        THEN /\ ~Req.api_key.present \/ Req.api_key.value = "" =>
                    Res = Forbidden("API key required")
             /\ ( /\ Req.api_key.present
                  /\ Req.api_key.value # ""
                  /\ Req.api_key.value # server.api_key ) =>
                    Res = Forbidden("Invalid API key")
             /\ Res.handler # "" =>
                    Req.api_key.present /\ Req.api_key.value = server.api_key
             /\ Req.api_key.present /\ Req.api_key.value = server.api_key =>
                    Res.status # 403 /\ Routed(Req) \subseteq { Res.handler }
        ELSE Res.status # 403 /\ Routed(Req) \subseteq { Res.handler }
\* A server with a key has refused a request whose api_key parameter is empty.
C22_Witness ==
    /\ probe.op = "request"
    /\ server.api_key = TEST_API_KEY
    /\ Req.api_key = [ present |-> TRUE, value |-> "" ]
    /\ Req.path = "/logs"
    /\ Res = Forbidden("API key required")

\* The last request passes the API-key gate as the claims describe it.
Authorized ==
    \/ server.api_key = NoKey
    \/ Req.api_key.present /\ Req.api_key.value = server.api_key

\* C23: an authorized GET /stats is answered 200 with the JSON object
\* {"stats": {pods_total, pods_running, pipeline_last_run_time}} whose values
\* are what the update methods were last called with, zeros before any update.
C23_StatsEndpoint ==
    /\ probe.op = "request"
    /\ Req.method = "GET" /\ Req.path = "/stats"
    /\ Authorized /\ Fault = "none"
    => /\ Res.status = 200
       /\ IsJson(Res.body)
       /\ Res.body.json = [ stats |-> last_set ]

\* C24: an authorized POST /logs is answered "OK" with status 200 whatever the
\* body is: a JSON object, JSON that is not an object, malformed JSON sent as
\* application/json, or a body that is not JSON.
C24_LogsAlwaysOk ==
    /\ probe.op = "request"
    /\ Req.method = "POST" /\ Req.path = "/logs"
    /\ Authorized /\ Fault = "none"
    => Res.status = 200 /\ Res.body = Text("OK")

\* C25: whenever the application handles a request, no exception leaves a view
\* function: an exception raised inside one (by the Stats object in the GET
\* handlers, by the reading of the body in the POST handler) is answered by
\* that view function with status 500 and its "Internal Server Error" body.
\* Handling the request leaves the server's worker thread and the manager's
\* loop as they were, and a request that follows one answered 500 is served as
\* any other: an authorized GET of a registered route, nothing failing, is
\* answered 200.
C25_HandlerErrorsBecome500 ==
    [][ probe'.op = "request" /\ probe'.n = probe.n + 1 =>
          LET req == probe'.input[1]
              fault == probe'.input[2]
              res == probe'.result
          IN  /\ res.exc = ""
              /\ /\ res.handler \in { "get_pods_count",
                                      "get_pipeline_last_run_time" }
                 /\ fault = "stats"
                 => /\ res.status = 500
                    /\ res.body = Json([ error |-> InternalServerError ])
              /\ res.handler = "handle_logs" /\ fault = "get_data"
                 => res.status = 500 /\ res.body = Text(InternalServerError)
              /\ server' = server
              /\ UNCHANGED << current_state, pc, shutdown_event, now, ticks,
                              run_raised, critical_logged >>
              /\ /\ probe.op = "request" /\ probe.result.status = 500
                 /\ fault = "none" /\ req.method = "GET"
                 /\ Routed(req) # {}
                 /\ server.api_key = NoKey
                 => res.status = 200 ]_vars
\* A started server whose worker runs has answered 500 to a GET whose Stats
\* getter raised.
C25_Witness ==
    /\ probe.op = "request"
    /\ Fault = "stats"
    /\ Res.handler = "get_pods_count"
    /\ Res.status = 500
    /\ server.worker = "running"
    /\ probe.n = MaxCalls + 1

\* C26: a call of the server's shutdown(), in whatever state the server is
\* (never started, started with its worker running or finished, shut down
\* before), raises nothing, sets the stop event, calls join (with its timeout)
\* exactly when self.thread refers to a thread that is alive, and ends with
\* self.thread cleared whether or not the worker ended: the state it leaves is
\* the same in all these cases.
C26_ShutdownSafe ==
    [][ probe'.op = "shutdown" /\ probe'.n = probe.n + 1 =>
          /\ probe'.result.exc = ""
          /\ server'.stop_event
          /\ server'.thread = "None"
          /\ probe'.result.joined =
               (server.thread # "None" /\ server.worker = "running")
          /\ server'.api_key = server.api_key ]_vars
\* shutdown() has waited for a worker that did not end within the timeout, and
\* has returned with the reference cleared.
C26_Witness ==
    /\ probe.op = "shutdown"
    /\ probe.result.joined
    /\ probe.input[1].thread = "Thread"
    /\ server.worker = "running"
    /\ server.thread = "None"
    /\ server.stop_event

\* C27: the threads meet only in the methods of the Stats object, and none can
\* hold another up: the lock is held only by a thread that is inside a with
\* block, whose body is one read or one write of a field (no call of a
\* collaborator, no sleep, no second lock), so the holder can always take its
\* next step whatever the other threads do; and a thread that waits while the
\* lock is free can enter.  No state is a deadlock: whenever a thread is in a
\* call, some thread can move.
C27_NoThreadBlocksAnother ==
    /\ lock # "" =>
         /\ threads[lock].pc \in { "locked", "release" }
         /\ ENABLED (Access(lock) \/ Release(lock))
    /\ \A t \in Threads :
         threads[t].pc = "acquire" /\ lock = "" => ENABLED Acquire(t)
    /\ (\E t \in Threads : threads[t].pc # "idle") =>
         \E t \in Threads : ENABLED (Acquire(t) \/ Access(t) \/ Release(t))
\* The manager's thread waits for the lock while a request thread is inside a
\* getter.
C27_Witness ==
    /\ threads["loop"].pc = "acquire"
    /\ threads["loop"].op \in Writers
    /\ lock \in { "request-1", "request-2" }
    /\ threads[lock].op \notin Writers

\* C28: an iteration that begins a cycle, the first of the process or one after
\* a reset, handles STARTING_CYCLE first and ATTEMPTING_POD_START next, with
\* the cycle's start time set to the iteration's clock reading; what the
\* iteration leaves of the per-cycle fields is the new cycle's own: no pod id
\* and no pod URL unless this cycle's ensure_started returned a pod, whose URL
\* it then is, and the times of the last idle check and of the last count
\* update zero unless this very iteration checked, or updated the counts.  In
\* every iteration, the URL passed to check_idle and trigger_run is the URL of
\* the pod that ensure_started returned in the cycle under way.
C28_CycleStartsFresh ==
    [][ Ticked =>
          /\ Handled(tick_log', STATE_STARTING_CYCLE) =>
               /\ Len(tick_log'.handled) >= 2
               /\ tick_log'.handled[1] = STATE_STARTING_CYCLE
               /\ tick_log'.handled[2] = STATE_ATTEMPTING_POD_START
               /\ cycle_start_time' = now'
               /\ Made(tick_log'.calls, "ensure_started") # {}
               /\ tick_log'.calls[1].res # "pod" => pod_id' = "" /\ pod_url' = ""
               /\ tick_log'.calls[1].res = "pod" =>
                    pod_id' # "" /\ pod_url' = POD_URL_TEMPLATE(pod_id')
               /\ last_idle_check_time' =
                    IF Made(tick_log'.calls, "check_idle") # {} THEN now' ELSE 0
               /\ last_count_update_time' =
                    IF \E i \in Made(tick_log'.calls, "count") :
                           tick_log'.calls[i].res = "valid"
                    THEN now' ELSE 0
          /\ \A i \in 1..Len(tick_log'.calls) :
               tick_log'.calls[i].op \in { "check_idle", "trigger_run" } =>
                    /\ cycle_log'.pod # ""
                    /\ tick_log'.calls[i].arg = POD_URL_TEMPLATE(cycle_log'.pod) ]_vars
\* A second cycle has begun after a first one that had a pod, triggered a run
\* and updated the counts: its pod is another one and nothing is left of the
\* first cycle's count update time.
C28_Witness ==
    /\ tick_log.reset
    /\ cycle = 2
    /\ pipeline_last_run_time # 0
    /\ pods_total # 0
    /\ pod_id = "podB"
    /\ last_count_update_time = 0

\* C29: at the end of every iteration, ensure_started has been called at most
\* once and trigger_run at most once in the cycle under way; and an iteration
\* in which ensure_started returned no pod, or trigger_run returned false,
\* ends in WAITING_AFTER_FAILURE.
C29_NoRetryWithinCycle ==
    [][ Ticked =>
          /\ cycle_log'.ensure_started <= 1
          /\ cycle_log'.trigger_run <= 1
          /\ (\E i \in Made(tick_log'.calls, "ensure_started") :
                tick_log'.calls[i].res # "pod")
             => current_state' = STATE_WAITING_AFTER_FAILURE
          /\ (\E i \in Made(tick_log'.calls, "trigger_run") :
                tick_log'.calls[i].res = "false")
             => current_state' = STATE_WAITING_AFTER_FAILURE ]_vars
\* The one trigger_run of the cycle failed in an earlier iteration; the last
\* iteration called nothing and the machine waits.
C29_Witness ==
    /\ cycle_log.trigger_run = 1
    /\ ~cycle_log.triggered
    /\ tick_log.calls = << >>
    /\ ~tick_log.reset
    /\ current_state = STATE_WAITING_AFTER_FAILURE

\* C30: in every iteration, each call of a collaborator comes after the call
\* of the same cycle that it depends on, made earlier in the iteration or in an
\* earlier iteration of the cycle: check_idle after an ensure_started that
\* returned a pod, trigger_run after a check_idle that returned true, count
\* after a trigger_run that returned true.  An iteration whose check_idle
\* returned false ends in WAITING_FOR_IDLE.
C30_CallsInOrder ==
    [][ Ticked =>
          LET calls == tick_log'.calls
              same_cycle == ~Handled(tick_log', STATE_STARTING_CYCLE)
              before(i, op, res) ==
                  \E j \in 1..(i - 1) : calls[j].op = op /\ calls[j].res = res
          IN  /\ \A i \in Made(calls, "check_idle") :
                    \/ before(i, "ensure_started", "pod")
                    \/ same_cycle /\ cycle_log.pod # ""
              /\ \A i \in Made(calls, "trigger_run") :
                    \/ before(i, "check_idle", "true")
                    \/ same_cycle /\ cycle_log.idle
              /\ \A i \in Made(calls, "count") :
                    \/ before(i, "trigger_run", "true")
                    \/ same_cycle /\ cycle_log.triggered
              /\ (\E i \in Made(calls, "check_idle") : calls[i].res = "false")
                 => current_state' = STATE_WAITING_FOR_IDLE ]_vars
\* The pod was started in an earlier iteration of the cycle and was not idle
\* at first; the last iteration found it idle, triggered the run and counted.
C30_Witness ==
    /\ ~Handled(tick_log, STATE_STARTING_CYCLE)
    /\ Len(tick_log.calls) = 3
    /\ tick_log.calls[1].op = "check_idle" /\ tick_log.calls[1].res = "true"
    /\ tick_log.calls[2].op = "trigger_run" /\ tick_log.calls[2].res = "true"
    /\ tick_log.calls[3].op = "count"
    /\ cycle_log.ensure_started = 1
    /\ current_state = STATE_UPDATING_COUNTS

\* C31: an iteration that handles UPDATING_COUNTS calls count() exactly when
\* at least COUNT_UPDATE_INTERVAL has passed since the last successful count
\* update of the cycle (time zero if the cycle has had none), and calls it
\* once; an update that succeeds sets the time of the last update to the
\* iteration's clock reading, one that fails leaves it as it was.  So an
\* iteration that follows a failed update in UPDATING_COUNTS calls count()
\* again, however little time has passed.
C31_CountEveryInterval ==
    [][ Ticked /\ Handled(tick_log', STATE_UPDATING_COUNTS) =>
          LET last == IF Handled(tick_log', STATE_STARTING_CYCLE) THEN 0
                      ELSE last_count_update_time
              made == Made(tick_log'.calls, "count")
              valid == { i \in made : tick_log'.calls[i].res = "valid" }
          IN  /\ made # {} <=> now' - last >= COUNT_UPDATE_INTERVAL
              /\ Cardinality(made) <= 1
              /\ last_count_update_time' = IF valid # {} THEN now' ELSE last
              /\ /\ current_state = STATE_UPDATING_COUNTS
                 /\ Made(tick_log.calls, "count") # {}
                 /\ \A i \in Made(tick_log.calls, "count") :
                       tick_log.calls[i].res # "valid"
                 /\ ~tick_log'.reset
                 => made # {} ]_vars
\* An iteration that began in UPDATING_COUNTS has called count() though less
\* than an interval has passed since the run was triggered: the cycle has had
\* no successful update yet, the attempt made when the run was triggered having
\* failed, as this one has.
C31_Witness ==
    /\ tick_log.handled = << STATE_UPDATING_COUNTS >>
    /\ tick_log.calls = << Call("count", "", "invalid") >>
    /\ last_count_update_time = 0
    /\ now - last_idle_check_time < COUNT_UPDATE_INTERVAL
    /\ cycle_log.triggered

\* The phases in which an iteration can end.
Resting ==
    { STATE_WAITING_FOR_IDLE, STATE_UPDATING_COUNTS, STATE_WAITING_AFTER_FAILURE }

\* C32: the phase is always one of the six valid phases, and once an iteration
\* has run, so at every point where the loop sleeps and looks at the shutdown
\* event again, it is WAITING_FOR_IDLE, UPDATING_COUNTS or
\* WAITING_AFTER_FAILURE: STARTING_CYCLE, ATTEMPTING_POD_START and
\* ATTEMPTING_PIPELINE_RUN are left in the iteration that enters them.
C32_RestingAtTickBoundary ==
    /\ current_state \in VALID_STATES
    /\ ticks >= 1 => current_state \in Resting
\* One iteration has gone through STARTING_CYCLE, ATTEMPTING_POD_START and
\* ATTEMPTING_PIPELINE_RUN and rests in UPDATING_COUNTS.
C32_Witness ==
    /\ tick_log.handled =
         << STATE_STARTING_CYCLE, STATE_ATTEMPTING_POD_START,
            STATE_WAITING_FOR_IDLE, STATE_ATTEMPTING_PIPELINE_RUN,
            STATE_UPDATING_COUNTS >>
    /\ current_state = STATE_UPDATING_COUNTS
    /\ ticks = 1
    /\ pc = "loop"

\* C33: whatever instant a reader looks at the published counts, pods_total
\* and pods_running are both the initial 0 or are the total and the running of
\* one and the same result of count().
C33_SnapshotFromOneCount ==
    \/ pods_total = 0 /\ pods_running = 0
    \/ \E cnt \in CountResults :
         /\ update_pod_counts(cnt)
         /\ pods_total = cnt.total
         /\ pods_running = cnt.running

\* C34: whenever the phase is WAITING_FOR_IDLE, ATTEMPTING_PIPELINE_RUN or
\* UPDATING_COUNTS, the pod id is not empty, it is the pod that ensure_started
\* returned in the cycle under way, and the pod URL is POD_URL_TEMPLATE applied
\* to it; and the check_idle and trigger_run calls of the last iteration were
\* given that URL.
C34_PodKnownWhileInUse ==
    current_state \in { STATE_WAITING_FOR_IDLE, STATE_ATTEMPTING_PIPELINE_RUN,
                        STATE_UPDATING_COUNTS } =>
        /\ pod_id # ""
        /\ pod_id = cycle_log.pod
        /\ cycle_log.ensure_started = 1
        /\ pod_url = POD_URL_TEMPLATE(pod_id)
        /\ \A i \in 1..Len(tick_log.calls) :
             tick_log.calls[i].op \in { "check_idle", "trigger_run" } =>
                 tick_log.calls[i].arg = pod_url
\* The machine waits for its pod to become idle: it asked again in an iteration
\* after the one that started the pod, with the pod's URL, and was told no.
C34_Witness ==
    /\ current_state = STATE_WAITING_FOR_IDLE
    /\ pod_id = "podB"
    /\ tick_log.handled = << STATE_WAITING_FOR_IDLE >>
    /\ tick_log.calls =
         << Call("check_idle", POD_URL_TEMPLATE("podB"), "false") >>

\* C35: an iteration that resets a cycle which is in UPDATING_COUNTS or in
\* WAITING_FOR_IDLE calls ensure_started before any other collaborator, and
\* does not call terminate_all unless that ensure_started fails: the reset does
\* not terminate the pod.
C35_ResetSparesPod ==
    [][ /\ Ticked
        /\ tick_log'.reset
        /\ current_state \in { STATE_UPDATING_COUNTS, STATE_WAITING_FOR_IDLE }
        => /\ tick_log'.calls # << >>
           /\ tick_log'.calls[1].op = "ensure_started"
           /\ tick_log'.calls[1].res = "pod" =>
                Terminations(tick_log'.calls) = 0 ]_vars

\* C36: whichever way run() is left (the event set by a signal, a
\* KeyboardInterrupt, an invalid state, another exception), what runs on the
\* way out calls the REST interface's shutdown and nothing else:
\* terminate_all is not called, and when the loop is left between two
\* iterations the pod of the cycle under way stays as it was.
C36_ExitLeavesPods ==
    [][ pc # "stopped" /\ pc' = "stopped"
        => /\ Terminations(exit_calls') = 0
           /\ Made(exit_calls', "rest_interface.shutdown") = { 1 }
           /\ Len(exit_calls') = 1
           /\ ticks' = ticks
              => /\ pod_id' = pod_id
                 /\ pod_url' = pod_url
                 /\ current_state' = current_state
                 /\ tick_log' = tick_log ]_vars

\* C36 witness: a signal has stopped the manager while a pod started by the
\* cycle under way was waited for; the pod is still recorded.
C36_Witness ==
    /\ pc = "stopped"
    /\ left_by = "none"
    /\ current_state = STATE_WAITING_FOR_IDLE
    /\ pod_id # ""
    /\ Made(exit_calls, "rest_interface.shutdown") # {}

\* C37: the published statistics change only through a success.  A step
\* changes pods_total only in an iteration whose count() was valid, and to that
\* count's total; it changes pods_running only by publishing the running of
\* that count; it changes pipeline_last_run_time only in an iteration whose
\* trigger_run succeeded.  So an iteration that resets the cycle, meets a
\* failure, calls terminate_all or enters WAITING_AFTER_FAILURE, and has no
\* such success, leaves the three values as they were.
C37_StatsChangeOnlyBySuccess ==
    [][ /\ pods_total' # pods_total
           => /\ Ticked
              /\ \E i \in Made(tick_log'.calls, "count") :
                    tick_log'.calls[i].res = "valid"
              /\ pods_total' = counts'.total
        /\ pods_running' # pods_running
           => /\ pc = "update_pods_running"
              /\ \E i \in Made(tick_log.calls, "count") :
                    tick_log.calls[i].res = "valid"
              /\ pods_running' = counts.running
        /\ pipeline_last_run_time' # pipeline_last_run_time
           => /\ Ticked
              /\ \E i \in Made(tick_log'.calls, "trigger_run") :
                    tick_log'.calls[i].res = "true"
        /\ /\ Ticked
           /\ \/ tick_log'.reset
              \/ Terminations(tick_log'.calls) > 0
              \/ \E i \in 1..Len(tick_log'.calls) : Failure(tick_log'.calls[i])
              \/ current_state' = STATE_WAITING_AFTER_FAILURE
           => /\ pods_running' = pods_running
              /\ (\A i \in Made(tick_log'.calls, "count") :
                     tick_log'.calls[i].res # "valid")
                 => pods_total' = pods_total
              /\ (\A i \in Made(tick_log'.calls, "trigger_run") :
                     tick_log'.calls[i].res # "true")
                 => pipeline_last_run_time' = pipeline_last_run_time ]_vars

\* C37 witness: a cycle that published a count and a run time has been reset,
\* the new cycle's pod start failed and the pods were terminated; the machine
\* cools down and the published values are still there.
C37_Witness ==
    /\ current_state = STATE_WAITING_AFTER_FAILURE
    /\ cycle = 2
    /\ FailedIn(tick_log.calls, "ensure_started") # {}
    /\ Terminations(tick_log.calls) > 0
    /\ pods_total # 0
    /\ pods_running # 0
    /\ pipeline_last_run_time # 0

\* C38: the clock of the run never going backwards, no step lowers
\* pipeline_last_run_time; a step that changes it is an iteration in which the
\* one trigger_run of the cycle under way was made and succeeded, and the new
\* value is that iteration's clock reading, so the value rises at most once in
\* a cycle.
C38_RunTimeRisesOncePerCycle ==
    [][ /\ now' >= now
        /\ pipeline_last_run_time' >= pipeline_last_run_time
        /\ pipeline_last_run_time' # pipeline_last_run_time
           => /\ Ticked
              /\ Cardinality(Made(tick_log'.calls, "trigger_run")) = 1
              /\ \A i \in Made(tick_log'.calls, "trigger_run") :
                    tick_log'.calls[i].res = "true"
              /\ cycle_log'.trigger_run = 1
              /\ cycle_log'.triggered
              /\ pipeline_last_run_time' = now'
              /\ pipeline_last_run_time' > pipeline_last_run_time ]_vars

\* C38 witness: the cycle's trigger_run succeeded in an earlier iteration and
\* set the run time; later iterations of the same cycle have passed, the clock
\* has moved on and the run time is what the trigger left.
C38_Witness ==
    /\ cycle_log.triggered
    /\ cycle_log.trigger_run = 1
    /\ Made(tick_log.calls, "trigger_run") = {}
    /\ current_state = STATE_UPDATING_COUNTS
    /\ pipeline_last_run_time >= StartTime
    /\ pipeline_last_run_time < now

\* What a Stats object can hold.
StoreContents ==
    [ pods_count : StatValues, pipeline_last_run_time : StatValues ]

\* C39: with a key configured, a request whose api_key is absent, empty or not
\* the configured key gets the answer of the gate, 403, and no view function
\* runs; the application would give the same answer whatever the Stats object
\* held; and handling the request changes neither the Stats object nor the
\* server nor anything the manager has published.
C39_GateDisclosesNothing ==
    [][ /\ probe'.n = probe.n + 1
        /\ probe'.op = "request"
        /\ server.api_key # NoKey
        /\ ~ /\ probe'.input[1].api_key.present
             /\ probe'.input[1].api_key.value = server.api_key
        => /\ probe'.result.status = 403
           /\ probe'.result.handler = ""
           /\ probe'.result = check_api_key(server.api_key, probe'.input[1])
           /\ \A held \in StoreContents :
                 full_dispatch_request(server, held, probe'.input[1],
                                       probe'.input[2]) = probe'.result
           /\ UNCHANGED << stats, last_set, server, lock, threads, store_log,
                           pods_total, pods_running, pipeline_last_run_time >>
      ]_vars

\* C39 witness: the Stats object holds a count, and a GET of the count with a
\* key that is not the configured one has been answered "Invalid API key".
C39_Witness ==
    /\ probe.op = "request"
    /\ server.api_key # NoKey
    /\ Req.api_key.present
    /\ Req.api_key.value \notin { "", server.api_key }
    /\ Req.path = "/stats/pods-count"
    /\ Req.method = "GET"
    /\ stats.pods_count # 0
    /\ Res = Forbidden("Invalid API key")
====
